---------------------------- MODULE Spec2Model ----------------------------
(***************************************************************************)
(* Construction/window-layer validation of DataHeatBalance.cc.             *)
(*                                                                         *)
(* Units.  The source works in Real64; the model keeps every real in a     *)
(* fixed integer unit: absorptances and gas fractions in hundredths        *)
(* (1.0 = 100), thicknesses and slat widths in 0.0001 m (0.0005 m = 5).    *)
(***************************************************************************)
EXTENDS Integers, Sequences, FiniteSets, TLC

VARIABLES
    Construct,      \* FArray1D< ConstructionData > Construct
    TotConstructs,  \* number of entries of Construct
    Blind,          \* FArray1D< WindowBlindProperties > Blind
    ErrorsFound,    \* the caller's shared error flag (bool & ErrorsFound)
    Validated,      \* construction numbers CheckAndSetConstructionProperties has returned for
    ErrorsFound0,   \* the value the shared flag had before the first call
    LayerPointReads, \* << ConstrNum, slot >>: the LayerPoint slot the test of line 679 read
    NominalRforNominalUCalculation, \* FArray1D< Real64 >, one entry per construction
    NominalU,       \* FArray1D< Real64 >, one entry per construction
    ReverseCalls,   \* the calls of AssignReverseConstructionNumber so far, with their returns
    TotBlinds,      \* number of entries of Blind
    BlindCalls,     \* the calls of AddVariableSlatBlind so far, with their outputs
    Surface,        \* FArray1D< SurfaceData > Surface: Azimuth and Tilt, in degrees
    SurfaceScreens, \* FArray1D< SurfaceScreenProperties > SurfaceScreens
    ScreenCall      \* the last call of CalcScreenTransmittance: arguments, locals, outcome

vars == << Construct, TotConstructs, Blind, ErrorsFound, Validated, ErrorsFound0,
           LayerPointReads, NominalRforNominalUCalculation, NominalU, ReverseCalls,
           TotBlinds, BlindCalls, Surface, SurfaceScreens, ScreenCall >>

\* The variables of the screen model.
screenVars == << Surface, SurfaceScreens, ScreenCall >>

---------------------------------------------------------------------------
(* Program constants: DataHeatBalance.cc lines 62-89.                      *)

MaxLayersInConstruct == 11

RegularMaterial == 0
Air == 1
Shade == 2
WindowGlass == 3
WindowGas == 4
WindowBlind == 5
WindowGasMixture == 6
Screen == 7
EcoRoof == 8
IRTMaterial == 9
WindowSimpleGlazing == 10
ComplexWindowShade == 11
ComplexWindowGap == 12
GlassEquivalentLayer == 13
ShadeEquivalentLayer == 14
DrapeEquivalentLayer == 15
BlindEquivalentLayer == 16
ScreenEquivalentLayer == 17
GapEquivalentLayer == 18

MaterialGroups == RegularMaterial..GapEquivalentLayer

\* Blind slat angle types, DataHeatBalance.cc lines 108-109.
FixedSlats == 1
VariableSlats == 2

---------------------------------------------------------------------------
(* Bounds of the model.                                                    *)

\* Constructions of at most this many layers draw every slot from the whole
\* material catalogue and from 0 (an unresolved reference).
MaxFreeLayers == 2

\* Longer constructions, up to this many layers, draw every slot from WindowRefs.
MaxWindowLayers == 3

\* Still longer constructions, up to this many layers, draw every slot from CoreMats.
MaxCoreLayers == 7

\* The largest number of constructions validated against one shared flag.
MaxBatch == 3

\* The largest number of constructions in the registry when the first reverse
\* construction is asked for.
MaxRegistry == 2

\* The largest number of calls of AssignReverseConstructionNumber in a run.
MaxReverseCalls == 3

\* The largest number of blinds read from input.
MaxBlinds == 2

\* The largest number of calls of AddVariableSlatBlind in a run.
MaxBlindCalls == 3

\* The largest number of calls of CalcScreenTransmittance in a run.
MaxScreenCalls == 1

---------------------------------------------------------------------------
(* The material registry.  Material(i) of the source is Material[i].       *)

\* One MaterialProperties record; the absorptances and the roughness differ
\* from index to index and from field to field, so that a copy from the wrong
\* layer or the wrong field is visible.
MakeMaterial(i, grp, diffusing, gasType, gasFract, thickness, blindPtr) ==
    [ Group              |-> grp,
      SolarDiffusing     |-> diffusing,
      GasType            |-> gasType,
      GasFract           |-> gasFract,
      Thickness          |-> thickness,
      BlindDataPtr       |-> blindPtr,
      AbsorpThermal      |-> 10 + i,
      AbsorpThermalFront |-> 40 + i,
      AbsorpThermalBack  |-> 70 + i,
      AbsorpVisible      |-> 2 * i,
      AbsorpSolar        |-> 3 * i,
      Roughness          |-> 1 + (i % 6) ]

NoGas == << 0, 0, 0, 0, 0 >>

Solid(i, grp) == MakeMaterial(i, grp, FALSE, NoGas, NoGas, 30, 0)

Material ==
    << Solid(1, RegularMaterial),
       Solid(2, Air),
       Solid(3, Shade),
       Solid(4, WindowGlass),
       MakeMaterial(5, WindowGas, FALSE, << 1, 0, 0, 0, 0 >>, << 100, 0, 0, 0, 0 >>, 120, 0),
       MakeMaterial(6, WindowBlind, FALSE, NoGas, NoGas, 10, 1),
       MakeMaterial(7, WindowGasMixture, FALSE, << 1, 2, 0, 0, 0 >>, << 50, 50, 0, 0, 0 >>, 120, 0),
       Solid(8, Screen),
       Solid(9, EcoRoof),
       Solid(10, IRTMaterial),
       Solid(11, WindowSimpleGlazing),
       Solid(12, ComplexWindowShade),
       Solid(13, ComplexWindowGap),
       Solid(14, GlassEquivalentLayer),
       Solid(15, ShadeEquivalentLayer),
       Solid(16, DrapeEquivalentLayer),
       Solid(17, BlindEquivalentLayer),
       Solid(18, ScreenEquivalentLayer),
       Solid(19, GapEquivalentLayer),
       MakeMaterial(20, WindowGlass, TRUE, NoGas, NoGas, 30, 0),
       \* the same gas as material 5, 0.0005 m thicker (inside the tolerance)
       MakeMaterial(21, WindowGas, FALSE, << 1, 0, 0, 0, 0 >>, << 100, 0, 0, 0, 0 >>, 125, 0),
       \* the same gas as material 5, 0.0006 m thicker (outside the tolerance)
       MakeMaterial(22, WindowGas, FALSE, << 1, 0, 0, 0, 0 >>, << 100, 0, 0, 0, 0 >>, 126, 0),
       \* another gas of the thickness of material 5
       MakeMaterial(23, WindowGas, FALSE, << 2, 0, 0, 0, 0 >>, << 100, 0, 0, 0, 0 >>, 120, 0),
       \* the mixture of material 7 in other fractions
       MakeMaterial(24, WindowGasMixture, FALSE, << 1, 2, 0, 0, 0 >>, << 60, 40, 0, 0, 0 >>, 120, 0),
       \* a blind whose slats are wider than two 0.012 m gaps
       MakeMaterial(25, WindowBlind, FALSE, NoGas, NoGas, 10, 2) >>

TotMaterials == Len(Material)

\* What a read of Material(0) can yield: the array is indexed from 1, so the
\* read is out of bounds and its value is whatever the build finds there.
JunkMaterial == MakeMaterial(0, 0 - 1, FALSE, NoGas, NoGas, 0, 0)

GarbageMaterials == { Material[i] : i \in 1..TotMaterials } \cup { JunkMaterial }

\* Material( MaterNum ) with the out-of-bounds read of index 0 resolved to g.
Mat(MaterNum, g) == IF MaterNum = 0 THEN g ELSE Material[MaterNum]

\* One WindowBlindProperties record as read from input, where every blind has
\* fixed slats.  Lengths in 0.0001 m, angles in degrees.
MakeBlind(name, width, separation, thickness, angle, min, max) ==
    [ Name           |-> name,
      SlatAngleType  |-> FixedSlats,
      SlatWidth      |-> width,
      SlatSeparation |-> separation,
      SlatThickness  |-> thickness,
      SlatAngle      |-> angle,
      MinSlatAngle   |-> min,
      MaxSlatAngle   |-> max ]

\* The blind registry as read from input: Blind(1) has 0.02 m slats, Blind(2) 0.03 m slats.
InputBlinds ==
    << MakeBlind("B1", 200, 250, 10, 45, 0, 180), MakeBlind("B2", 300, 250, 10, 45, 0, 180) >>


---------------------------------------------------------------------------
(* CheckAndSetConstructionProperties, DataHeatBalance.cc lines 618-1007.   *)

\* The layer numbers the loops "for ( Layer = 1; Layer <= TotLayers; ++Layer )" visit.
Layers(c) == 1..c.TotLayers

\* Line 711 with ScreenEquivalentLayer left out of the list.
IsWindowLayerGroup_NoScreenEQL(grp) ==
    \/ grp = WindowGlass \/ grp = WindowGas \/ grp = WindowGasMixture
    \/ grp = Shade \/ grp = WindowBlind \/ grp = Screen
    \/ grp = WindowSimpleGlazing \/ grp = ComplexWindowShade \/ grp = ComplexWindowGap
    \/ grp = GlassEquivalentLayer \/ grp = ShadeEquivalentLayer
    \/ grp = DrapeEquivalentLayer
    \/ grp = BlindEquivalentLayer \/ grp = GapEquivalentLayer

\* Line 711: the groups that make a construction a window construction.
IsWindowLayerGroup(grp) ==
    \/ grp = WindowGlass \/ grp = WindowGas \/ grp = WindowGasMixture
    \/ grp = Shade \/ grp = WindowBlind \/ grp = Screen
    \/ grp = WindowSimpleGlazing \/ grp = ComplexWindowShade \/ grp = ComplexWindowGap
    \/ grp = GlassEquivalentLayer \/ grp = ShadeEquivalentLayer
    \/ grp = DrapeEquivalentLayer \/ grp = ScreenEquivalentLayer
    \/ grp = BlindEquivalentLayer \/ grp = GapEquivalentLayer

\* Line 726 with IRTMaterial let through.
IsAllowedWindowGroup_IRT(grp) ==
    ~ ( /\ grp # WindowGlass /\ grp # WindowGas /\ grp # WindowGasMixture
        /\ grp # Shade /\ grp # WindowBlind /\ grp # Screen
        /\ grp # WindowSimpleGlazing /\ grp # ComplexWindowShade /\ grp # ComplexWindowGap
        /\ grp # GlassEquivalentLayer /\ grp # GapEquivalentLayer
        /\ grp # ShadeEquivalentLayer /\ grp # DrapeEquivalentLayer
        /\ grp # ScreenEquivalentLayer /\ grp # BlindEquivalentLayer
        /\ grp # IRTMaterial )

\* Line 726: the groups a layer of a window construction may have.
IsAllowedWindowGroup(grp) ==
    ~ ( /\ grp # WindowGlass /\ grp # WindowGas /\ grp # WindowGasMixture
        /\ grp # Shade /\ grp # WindowBlind /\ grp # Screen
        /\ grp # WindowSimpleGlazing /\ grp # ComplexWindowShade /\ grp # ComplexWindowGap
        /\ grp # GlassEquivalentLayer /\ grp # GapEquivalentLayer
        /\ grp # ShadeEquivalentLayer /\ grp # DrapeEquivalentLayer
        /\ grp # ScreenEquivalentLayer /\ grp # BlindEquivalentLayer )

\* Line 739 with ComplexWindowGap left out of the list.
IsBadSingleLayerGroup_NoComplexGap(grp) ==
    \/ grp = Shade \/ grp = WindowGas \/ grp = WindowGasMixture \/ grp = WindowBlind
    \/ grp = Screen \/ grp = ComplexWindowShade

\* Line 739: the groups a one-layer window construction must not have.
IsBadSingleLayerGroup(grp) ==
    \/ grp = Shade \/ grp = WindowGas \/ grp = WindowGasMixture \/ grp = WindowBlind
    \/ grp = Screen \/ grp = ComplexWindowShade \/ grp = ComplexWindowGap

\* Lines 707-712: TypeIsWindow, from the layers with a non-zero reference.
AnyWindowLayer(c) ==
    \E Layer \in Layers(c) :
        /\ c.LayerPoint[Layer] # 0
        /\ IsWindowLayerGroup(Material[c.LayerPoint[Layer]].Group)

\* Lines 721-727: WrongMaterialsMix.
WrongMaterialsMix(c) ==
    \E Layer \in Layers(c) :
        /\ c.LayerPoint[Layer] # 0
        /\ ~ IsAllowedWindowGroup(Material[c.LayerPoint[Layer]].Group)

\* Lines 753-754: a layer counted in TotGlassLayers.
CountsAsGlass(grp) == grp = WindowGlass \/ grp = WindowSimpleGlazing

\* Line 755: a layer counted in TotShadeLayers.
CountsAsShade(grp) ==
    grp = Shade \/ grp = WindowBlind \/ grp = Screen \/ grp = ComplexWindowShade

\* Line 756: a layer counted in TotGasLayers.
CountsAsGas(grp) ==
    grp = WindowGas \/ grp = WindowGasMixture \/ grp = ComplexWindowGap

\* Lines 747-754: TotGlassLayers, over the layers with a non-zero reference.
CountGlassLayers(c) ==
    Cardinality({ Layer \in Layers(c) :
                    /\ c.LayerPoint[Layer] # 0
                    /\ CountsAsGlass(Material[c.LayerPoint[Layer]].Group) })

\* Lines 748-755: TotShadeLayers.
CountShadeLayers(c) ==
    Cardinality({ Layer \in Layers(c) :
                    /\ c.LayerPoint[Layer] # 0
                    /\ CountsAsShade(Material[c.LayerPoint[Layer]].Group) })

\* Lines 749-756: TotGasLayers.
CountGasLayers(c) ==
    Cardinality({ Layer \in Layers(c) :
                    /\ c.LayerPoint[Layer] # 0
                    /\ CountsAsGas(Material[c.LayerPoint[Layer]].Group) })

\* Lines 757-762 with the loop guard one short: the last pair is never compared.
AdjacentSameGroup_OffByOne(c) ==
    \E Layer \in Layers(c) :
        /\ c.LayerPoint[Layer] # 0
        /\ Layer < c.TotLayers - 1
        /\ c.LayerPoint[Layer + 1] # 0
        /\ Material[c.LayerPoint[Layer]].Group = Material[c.LayerPoint[Layer + 1]].Group

\* Lines 757-762: two adjacent layers, both referenced, of the same group.
AdjacentSameGroup(c) ==
    \E Layer \in Layers(c) :
        /\ c.LayerPoint[Layer] # 0
        /\ Layer < c.TotLayers
        /\ c.LayerPoint[Layer + 1] # 0
        /\ Material[c.LayerPoint[Layer]].Group = Material[c.LayerPoint[Layer + 1]].Group

\* Lines 781, 833, 839: "gas" in the layering rules.
IsGasGroup(grp) == grp = WindowGas \/ grp = WindowGasMixture

\* Line 781: gas cannot be the first or the last layer.
GasAtEdge(c) ==
    \/ IsGasGroup(Material[c.LayerPoint[1]].Group)
    \/ IsGasGroup(Material[c.LayerPoint[c.TotLayers]].Group)

\* Lines 785-794: a diffusing layer together with a shade, screen or blind.
DiffusingWithShade(c, TotShadeLayers) ==
    \E Layer \in Layers(c) :
        /\ c.LayerPoint[Layer] # 0
        /\ Material[c.LayerPoint[Layer]].SolarDiffusing
        /\ TotShadeLayers > 0

\* Lines 798-803: GlassLayNum when the loop is at Layer (WindowGlass layers so far).
GlassLayNumAt(c, Layer) ==
    Cardinality({ k \in 1..Layer :
                    /\ c.LayerPoint[k] # 0
                    /\ Material[c.LayerPoint[k]].Group = WindowGlass })

\* Lines 797-811 with the guard of line 797 one too high.
DiffusingNotInnermost_Guard(c, TotGlassLayers) ==
    /\ TotGlassLayers > 2
    /\ \E Layer \in Layers(c) :
        /\ c.LayerPoint[Layer] # 0
        /\ Material[c.LayerPoint[Layer]].Group = WindowGlass
        /\ GlassLayNumAt(c, Layer) < TotGlassLayers
        /\ Material[c.LayerPoint[Layer]].SolarDiffusing

\* Lines 797-811: a diffusing glass layer that is not the innermost glass layer.
DiffusingNotInnermost(c, TotGlassLayers) ==
    /\ TotGlassLayers > 1
    /\ \E Layer \in Layers(c) :
        /\ c.LayerPoint[Layer] # 0
        /\ Material[c.LayerPoint[Layer]].Group = WindowGlass
        /\ GlassLayNumAt(c, Layer) < TotGlassLayers
        /\ Material[c.LayerPoint[Layer]].SolarDiffusing

\* Line 814: an interior screen.
InteriorScreen(c, TotShadeLayers) ==
    /\ TotShadeLayers = 1
    /\ Material[c.LayerPoint[c.TotLayers]].Group = Screen
    /\ c.TotLayers # 1

\* Line 820 without its last conjunct: the one shading layer is neither first nor last.
IsBetweenGlass(c, TotShadeLayers) ==
    /\ TotShadeLayers = 1
    /\ Material[c.LayerPoint[1]].Group # Shade
    /\ Material[c.LayerPoint[1]].Group # WindowBlind
    /\ Material[c.LayerPoint[1]].Group # Screen
    /\ Material[c.LayerPoint[c.TotLayers]].Group # Shade
    /\ Material[c.LayerPoint[c.TotLayers]].Group # WindowBlind
    /\ Material[c.LayerPoint[c.TotLayers]].Group # ComplexWindowShade

\* The group the code reads for layer k inside the pattern tests (no zero test there).
GroupAt(c, k, g) == Mat(c.LayerPoint[k], g).Group

\* Line 833: glass, gas, shade or blind, gas, glass.
ValidDoublePattern(c, g) ==
    /\ GroupAt(c, 1, g) = WindowGlass
    /\ IsGasGroup(GroupAt(c, 2, g))
    /\ (GroupAt(c, 3, g) = Shade \/ GroupAt(c, 3, g) = WindowBlind)
    /\ GroupAt(c, 3, g) # Screen
    /\ IsGasGroup(GroupAt(c, 4, g))
    /\ GroupAt(c, 5, g) = WindowGlass

\* Line 839: glass, gas, glass, gas, shade or blind, gas, glass.
ValidTriplePattern(c, g) ==
    /\ GroupAt(c, 1, g) = WindowGlass
    /\ IsGasGroup(GroupAt(c, 2, g))
    /\ GroupAt(c, 3, g) = WindowGlass
    /\ IsGasGroup(GroupAt(c, 4, g))
    /\ (GroupAt(c, 5, g) = Shade \/ GroupAt(c, 5, g) = WindowBlind)
    /\ GroupAt(c, 5, g) # Screen
    /\ IsGasGroup(GroupAt(c, 6, g))
    /\ GroupAt(c, 7, g) = WindowGlass

\* Lines 878-882 with the std::abs of line 882 forgotten.
GapsDiffer_NoAbs(L, R) ==
    \/ \E IGas \in 1..5 :
          \/ L.GasType[IGas] # R.GasType[IGas]
          \/ L.GasFract[IGas] # R.GasFract[IGas]
    \/ L.Thickness - R.Thickness > 5

\* Lines 878-882: the gaps on the two sides of a between-glass shade or blind differ.
GapsDiffer(L, R) ==
    \/ \E IGas \in 1..5 :
          \/ L.GasType[IGas] # R.GasType[IGas]
          \/ L.GasFract[IGas] # R.GasFract[IGas]
    \/ (IF L.Thickness >= R.Thickness THEN L.Thickness - R.Thickness
                                      ELSE R.Thickness - L.Thickness) > 5

\* Lines 883-893: the slats of a between-glass blind are wider than the two gaps.
SlatTooWide(sh, L, R, bl) ==
    /\ sh.Group = WindowBlind
    /\ sh.BlindDataPtr > 0
    /\ L.Thickness + R.Thickness < bl[sh.BlindDataPtr].SlatWidth

\* Lines 824-896, entered with WrongWindowLayering false: its value afterwards
\* and whether line 887 set ErrorsFound.
BetweenGlassChecks(c, TotGlassLayers, bl, g) ==
    IF TotGlassLayers = 4
    THEN [ wrong |-> TRUE, slat |-> FALSE ]
    ELSE IF TotGlassLayers = 2 \/ TotGlassLayers = 3
    THEN LET badCount == IF TotGlassLayers = 2 THEN c.TotLayers # 5 ELSE c.TotLayers # 7
             ValidBGShadeBlindConst ==
                 /\ ~ badCount
                 /\ IF TotGlassLayers = 2 THEN ValidDoublePattern(c, g)
                                          ELSE ValidTriplePattern(c, g)
             wrong842 == badCount \/ ~ ValidBGShadeBlindConst
             LayNumSh == 2 * TotGlassLayers - 1
         IN  IF wrong842
             THEN [ wrong |-> TRUE, slat |-> FALSE ]
             ELSE LET MatSh == Mat(c.LayerPoint[LayNumSh], g)
                      wrong849 ==
                          \/ (MatSh.Group # Shade /\ MatSh.Group # WindowBlind)
                          \/ c.TotLayers # 2 * TotGlassLayers + 1
                      MatGapL == Mat(c.LayerPoint[LayNumSh - 1], g)
                      MatGapR == Mat(c.LayerPoint[LayNumSh + 1], g)
                  IN  IF wrong849
                      THEN [ wrong |-> TRUE, slat |-> FALSE ]
                      ELSE [ wrong |-> GapsDiffer(MatGapL, MatGapR),
                             slat  |-> SlatTooWide(MatSh, MatGapL, MatGapR, bl) ]
    ELSE [ wrong |-> FALSE, slat |-> FALSE ]

\* Lines 900-918: a simple-glazing construction with another glazing or gas layer.
SimpleGlazingViolation(c) ==
    /\ Material[c.LayerPoint[1]].Group = WindowSimpleGlazing
    /\ c.TotLayers > 1
    /\ \E Layer \in Layers(c) :
        /\ c.LayerPoint[Layer] # 0
        /\ \/ Material[c.LayerPoint[Layer]].Group = WindowGlass
           \/ Material[c.LayerPoint[Layer]].Group = WindowGas


\* Lines 684-712: the fields set before the first return on a zero reference.
\* InsideMaterNum and OutsideMaterNum are the references of layers TotLayers and 1.
SetEntryProperties(c) ==
    LET InsideMaterNum == c.LayerPoint[c.TotLayers]
        OutsideMaterNum == c.LayerPoint[1]
    IN  [ c EXCEPT
            !.DayltPropPtr = 0,
            !.InsideAbsorpVis =
                IF InsideMaterNum # 0 THEN Material[InsideMaterNum].AbsorpVisible ELSE @,
            !.InsideAbsorpSolar =
                IF InsideMaterNum # 0 THEN Material[InsideMaterNum].AbsorpSolar ELSE @,
            !.ReflectVisDiffBack =
                IF InsideMaterNum # 0 THEN 100 - Material[InsideMaterNum].AbsorpVisible ELSE @,
            !.OutsideAbsorpVis =
                IF OutsideMaterNum # 0 THEN Material[OutsideMaterNum].AbsorpVisible ELSE @,
            !.OutsideAbsorpSolar =
                IF OutsideMaterNum # 0 THEN Material[OutsideMaterNum].AbsorpSolar ELSE @,
            !.TotSolidLayers = 0,
            !.TotGlassLayers = 0,
            !.AbsDiffShade = 0,
            !.TypeIsWindow = AnyWindowLayer(c) ]

\* Lines 729-743 with the flag assigned the outcome of the tests instead of only set.
CompositionErrors_Assigns(c, ef) ==
    IF WrongMaterialsMix(c)
    THEN TRUE
    ELSE IF c.TotLayers > 8 /\ ~ c.WindowTypeBSDF /\ ~ c.WindowTypeEQL
    THEN TRUE
    ELSE IF c.TotLayers = 1
    THEN IsBadSingleLayerGroup(Material[c.LayerPoint[1]].Group)
    ELSE FALSE

\* Lines 729-743: ErrorsFound after the material-mix, layer-count and single-layer tests.
CompositionErrors(c, ef) ==
    IF WrongMaterialsMix(c)
    THEN TRUE
    ELSE IF c.TotLayers > 8 /\ ~ c.WindowTypeBSDF /\ ~ c.WindowTypeEQL
    THEN TRUE
    ELSE IF c.TotLayers = 1
    THEN IF IsBadSingleLayerGroup(Material[c.LayerPoint[1]].Group) THEN TRUE ELSE ef
    ELSE ef

\* Lines 781-816: WrongWindowLayering before the between-glass block.
WrongLayeringAtEdges(c, TotShadeLayers) ==
    \/ AdjacentSameGroup(c)
    \/ GasAtEdge(c)
    \/ TotShadeLayers > 1
    \/ InteriorScreen(c, TotShadeLayers)

\* Lines 818-897: the between-glass block, entered when line 820 holds.
BetweenGlass(c, TotGlassLayers, TotShadeLayers, bl, g) ==
    IF IsBetweenGlass(c, TotShadeLayers) /\ ~ WrongLayeringAtEdges(c, TotShadeLayers)
    THEN BetweenGlassChecks(c, TotGlassLayers, bl, g)
    ELSE [ wrong |-> FALSE, slat |-> FALSE ]

\* Lines 781-940 with TotGlassLayers and TotShadeLayers as counted in lines 745-763.
LayeringErrorsFor(c, ef, TotGlassLayers, TotShadeLayers, bg) ==
    \/ ef
    \/ DiffusingWithShade(c, TotShadeLayers)
    \/ DiffusingNotInnermost(c, TotGlassLayers)
    \/ bg.slat
    \/ SimpleGlazingViolation(c)
    \/ WrongLayeringAtEdges(c, TotShadeLayers) \/ bg.wrong

\* Lines 781-940 for a window that is neither BSDF nor equivalent-layer:
\* ErrorsFound after the layering rules, entered with ErrorsFound = ef.
LayeringErrors(c, ef, bl, g) ==
    LayeringErrorsFor(c, ef, CountGlassLayers(c), CountShadeLayers(c),
                      BetweenGlass(c, CountGlassLayers(c), CountShadeLayers(c), bl, g))

\* Lines 948-950 with the blind forgotten: the step back is made over a shade only.
WindowInsideLayer_ShadeOnly(c) ==
    IF Material[c.LayerPoint[c.TotLayers]].Group = Shade
    THEN c.TotLayers - 1 ELSE c.TotLayers

\* Lines 948-950: InsideLayer of an ordinary window after the step back over an
\* interior shade or blind.
WindowInsideLayer(c) ==
    IF \/ Material[c.LayerPoint[c.TotLayers]].Group = Shade
       \/ Material[c.LayerPoint[c.TotLayers]].Group = WindowBlind
    THEN c.TotLayers - 1 ELSE c.TotLayers

\* Lines 942-964: the derived fields of an ordinary window.
SetWindowProperties(c, g) ==
    LET InsideLayer == WindowInsideLayer(c)
        InsideMaterNum == IF InsideLayer > 0 THEN c.LayerPoint[InsideLayer]
                                             ELSE c.LayerPoint[c.TotLayers]
        firstGroup == Material[c.LayerPoint[1]].Group
    IN  [ c EXCEPT
            !.TotGlassLayers = CountGlassLayers(c),
            !.TotSolidLayers = CountGlassLayers(c) + CountShadeLayers(c),
            !.InsideAbsorpThermal =
                IF InsideLayer > 0 THEN Mat(c.LayerPoint[InsideLayer], g).AbsorpThermalBack
                                   ELSE @,
            !.InsideAbsorpVis =
                IF InsideMaterNum # 0 THEN Material[InsideMaterNum].AbsorpVisible ELSE @,
            !.InsideAbsorpSolar =
                IF InsideMaterNum # 0 THEN Material[InsideMaterNum].AbsorpSolar ELSE @,
            !.OutsideAbsorpThermal =
                IF firstGroup = WindowGlass \/ firstGroup = WindowSimpleGlazing
                THEN Material[c.LayerPoint[1]].AbsorpThermalFront
                ELSE Material[c.LayerPoint[1]].AbsorpThermal ]

\* Lines 986-996: an EcoRoof layer found by the scan of layers 2..TotLayers,
\* which runs only when layer 1 is EcoRoof and does not test for a zero reference.
InteriorEcoRoof(c, g) ==
    /\ Material[c.LayerPoint[1]].Group = EcoRoof
    /\ \E Layer \in 2..c.TotLayers : Mat(c.LayerPoint[Layer], g).Group = EcoRoof

\* Lines 971-1005 with the roughness of line 971 taken from the innermost layer.
FinishConstruction_InsideRoughness(c, ef, InsideLayer, g) ==
    LET firstGroup == Material[c.LayerPoint[1]].Group
    IN  [ con |-> [ c EXCEPT
                      !.OutsideRoughness = Material[c.LayerPoint[c.TotLayers]].Roughness,
                      !.TypeIsEcoRoof = IF firstGroup = EcoRoof THEN TRUE ELSE @,
                      !.TypeIsIRT = IF firstGroup = IRTMaterial THEN TRUE ELSE @ ],
          err |-> \/ ef
                  \/ firstGroup = Air
                  \/ (InsideLayer > 0 /\ Mat(c.LayerPoint[InsideLayer], g).Group = Air)
                  \/ InteriorEcoRoof(c, g)
                  \/ (firstGroup = IRTMaterial /\ c.TotLayers # 1) ]

\* Lines 971-1005: roughness, the Air, EcoRoof and IRT rules.
FinishConstruction(c, ef, InsideLayer, g) ==
    LET firstGroup == Material[c.LayerPoint[1]].Group
    IN  [ con |-> [ c EXCEPT
                      !.OutsideRoughness = Material[c.LayerPoint[1]].Roughness,
                      !.TypeIsEcoRoof = IF firstGroup = EcoRoof THEN TRUE ELSE @,
                      !.TypeIsIRT = IF firstGroup = IRTMaterial THEN TRUE ELSE @ ],
          err |-> \/ ef
                  \/ firstGroup = Air
                  \/ (InsideLayer > 0 /\ Mat(c.LayerPoint[InsideLayer], g).Group = Air)
                  \/ InteriorEcoRoof(c, g)
                  \/ (firstGroup = IRTMaterial /\ c.TotLayers # 1) ]

\* Lines 765-779 with the front and the back absorptance exchanged.
SetSpecialWindowProperties_FrontBack(c) ==
    IF c.WindowTypeBSDF
    THEN [ c EXCEPT
             !.TotGlassLayers = CountGlassLayers(c),
             !.TotSolidLayers = CountGlassLayers(c) + CountShadeLayers(c),
             !.InsideAbsorpThermal = Material[c.LayerPoint[c.TotLayers]].AbsorpThermalFront,
             !.OutsideAbsorpThermal = Material[c.LayerPoint[1]].AbsorpThermalBack ]
    ELSE [ c EXCEPT
             !.InsideAbsorpThermal = Material[c.LayerPoint[c.TotLayers]].AbsorpThermalFront,
             !.OutsideAbsorpThermal = Material[c.LayerPoint[1]].AbsorpThermalBack ]

\* Lines 765-779: the early returns of the BSDF and the equivalent-layer model.
SetSpecialWindowProperties(c) ==
    IF c.WindowTypeBSDF
    THEN [ c EXCEPT
             !.TotGlassLayers = CountGlassLayers(c),
             !.TotSolidLayers = CountGlassLayers(c) + CountShadeLayers(c),
             !.InsideAbsorpThermal = Material[c.LayerPoint[c.TotLayers]].AbsorpThermalBack,
             !.OutsideAbsorpThermal = Material[c.LayerPoint[1]].AbsorpThermalFront ]
    ELSE [ c EXCEPT
             !.InsideAbsorpThermal = Material[c.LayerPoint[c.TotLayers]].AbsorpThermalBack,
             !.OutsideAbsorpThermal = Material[c.LayerPoint[1]].AbsorpThermalFront ]

\* Lines 717-964: the window branch, c with NumCTFTerms and NumHistories reset
\* and ef743 the flag after lines 729-743.
WindowConstruction(c, ef743, bl, g) ==
    IF c.WindowTypeBSDF \/ c.WindowTypeEQL
    THEN [ con |-> SetSpecialWindowProperties(c), err |-> ef743 ]
    ELSE FinishConstruction(SetWindowProperties(c, g), LayeringErrors(c, ef743, bl, g),
                            WindowInsideLayer(c), g)

\* Lines 966-969: the opaque branch.
OpaqueConstruction(c, ef, g) ==
    FinishConstruction(
        [ c EXCEPT
            !.InsideAbsorpThermal = Material[c.LayerPoint[c.TotLayers]].AbsorpThermal,
            !.OutsideAbsorpThermal = Material[c.LayerPoint[1]].AbsorpThermal ],
        ef, c.TotLayers, g)

\* Lines 714-1007, c as lines 684-712 left it.
ClassifiedConstruction(c, ef, bl, g) ==
    IF c.LayerPoint[c.TotLayers] = 0 THEN [ con |-> c, err |-> ef ]
    ELSE IF c.LayerPoint[1] = 0 THEN [ con |-> c, err |-> ef ]
    ELSE IF c.TypeIsWindow
    THEN WindowConstruction([ c EXCEPT !.NumCTFTerms = 0, !.NumHistories = 0 ],
                            CompositionErrors(c, ef), bl, g)
    ELSE OpaqueConstruction(c, ef, g)

\* The whole routine on construction record c, with ErrorsFound = ef on entry,
\* the blind registry bl, g the value an out-of-bounds read of Material(0)
\* yields and s0 the value an out-of-bounds read of LayerPoint(0) yields:
\* the record and the flag on return.
CheckedConstruction(c, ef, bl, g, s0) ==
    IF (IF c.TotLayers = 0 THEN s0 ELSE c.LayerPoint[c.TotLayers]) <= 0
    THEN [ con |-> c, err |-> ef ]
    ELSE IF c.TotLayers = 0 THEN [ con |-> c, err |-> ef ]
    ELSE ClassifiedConstruction(SetEntryProperties(c), ef, bl, g)

---------------------------------------------------------------------------
(* The constructions the input processor hands over.                       *)

\* A layer sequence in the MaxLayersInConstruct slots of LayerPoint, unused slots 0.
PadLayers(layers) ==
    [ k \in 1..MaxLayersInConstruct |-> IF k <= Len(layers) THEN layers[k] ELSE 0 ]

\* A ConstructionData record as read from input, the derived fields at their defaults.
InputConstruction(layers, bsdf, eql) ==
    [ Name                 |-> "C",
      TotLayers            |-> Len(layers),
      LayerPoint           |-> PadLayers(layers),
      WindowTypeBSDF       |-> bsdf,
      WindowTypeEQL        |-> eql,
      IsUsed               |-> FALSE,
      TypeIsWindow         |-> FALSE,
      TypeIsEcoRoof        |-> FALSE,
      TypeIsIRT            |-> FALSE,
      TotGlassLayers       |-> 0,
      TotSolidLayers       |-> 0,
      DayltPropPtr         |-> 0,
      AbsDiffShade         |-> 0,
      NumCTFTerms          |-> 0,
      NumHistories         |-> 0,
      InsideAbsorpVis      |-> 0,
      InsideAbsorpSolar    |-> 0,
      ReflectVisDiffBack   |-> 0,
      OutsideAbsorpVis     |-> 0,
      OutsideAbsorpSolar   |-> 0,
      InsideAbsorpThermal  |-> 0,
      OutsideAbsorpThermal |-> 0,
      OutsideRoughness     |-> 0 ]

\* All sequences of length n over S.
SeqsOfLen(S, n) == [ 1..n -> S ]

\* One material of every group and a diffusing glass; 0 is an unresolved reference.
FreeRefs == 0..20

\* The materials of the window rules: an opaque material, shade, glass, gas,
\* blind, gas mixture, screen, simple glazing, complex shade, complex gap,
\* a diffusing glass; 0 is an unresolved reference.
WindowRefs == { 0, 1, 3, 4, 5, 6, 7, 8, 11, 12, 13, 20 }

\* The groups of the classic layering rules: glass, gas, shade, screen.
CoreMats == { 4, 5, 3, 8 }

GlassMats == { 4, 20 }
GapMats == { 5, 7, 21, 22, 23, 24 }
ShadingMats == { 3, 6, 25 }

\* glass, gap, shade or blind, gap, glass in every combination of the catalogue.
DoubleBGLayers ==
    { << a, l, s, r, 4 >> : a \in GlassMats, l \in GapMats, s \in ShadingMats, r \in GapMats }

\* glass, gap, glass, gap, shade or blind, gap, glass.
TripleBGLayers ==
    { << 4, 5, a, l, s, r, 4 >> : a \in GlassMats, l \in GapMats, s \in ShadingMats, r \in GapMats }

\* The references the slots of a construction of n layers are drawn from.
RefsForLength(n) ==
    IF n <= MaxFreeLayers THEN FreeRefs
    ELSE IF n <= MaxWindowLayers THEN WindowRefs
    ELSE CoreMats

\* Roofs of three layers with a planted (EcoRoof) layer: outermost with an
\* unresolved reference below it, outermost, outermost and innermost, in the middle.
EcoRoofLayers == { << 9, 0, 1 >>, << 9, 1, 1 >>, << 9, 1, 9 >>, << 1, 9, 1 >> }

\* The window models a construction can be input for: ordinary, BSDF, equivalent-layer.
WindowModels == { << FALSE, FALSE >>, << TRUE, FALSE >>, << FALSE, TRUE >> }

\* The constructions of a batch validated against one shared flag.
BatchLayers ==
    { << 1 >>, << 4 >>, << 5 >>, << 1, 9 >>, << 9, 9 >>, << 4, 5, 4 >>, << 0, 4 >>,
      << 11, 7, 3 >>, << 4, 5, 3, 22, 4 >> }

BatchConstructions == { InputConstruction(layers, FALSE, FALSE) : layers \in BatchLayers }

---------------------------------------------------------------------------
(* Nominal resistance and conductance.  A resistance is an integer number  *)
(* of 0.01 m2-K/W; a conductance is kept as the quotient num/den of two    *)
(* integers, so that 1/R is exact.                                         *)

\* NominalR( MaterNum ) as set when the materials are read: blinds and screens
\* have none.
NominalR ==
    [ MaterNum \in 1..TotMaterials |->
        IF Material[MaterNum].Group \in { WindowBlind, Screen } THEN 0 ELSE 10 + MaterNum ]

RECURSIVE AddNominalR(_, _, _)
\* Lines 1117-1122: the accumulation "+=" of NominalR over the slots
\* nLayer..MaxLayersInConstruct of LayerPoint, onto the value r.
AddNominalR(LayerPoint, nLayer, r) ==
    IF nLayer > MaxLayersInConstruct THEN r
    ELSE AddNominalR(LayerPoint, nLayer + 1,
                     IF LayerPoint[nLayer] # 0 THEN r + NominalR[LayerPoint[nLayer]] ELSE r)

\* Line 1127: 1.0 / r.
Reciprocal(r) == [ num |-> 1, den |-> r ]

\* The 0.0 of lines 1093 and 1095.
ZeroU == [ num |-> 0, den |-> 1 ]

\* Lines 1126-1128 on a slot that holds 0.0: NominalU for the resistance r.
NominalUFor(r) == IF r # 0 THEN Reciprocal(r) ELSE ZeroU

\* The resistance the input processor stores for a construction it has read.
InputNominalR(c) == AddNominalR(c.LayerPoint, 1, 0)

---------------------------------------------------------------------------
(* The arguments and the state of CalcScreenTransmittance.  Angles are     *)
(* whole degrees; transmittances, reflectances and absorptances are        *)
(* integer numbers of 0.0001.                                              *)

\* DataGlobals::Pi and DataGlobals::PiOvr2, in degrees.
Pi == 180
PiOvr2 == 90

\* The real number 1.0.
One == 10000

\* DataSurfaces::DoNotModel, ModelAsDirectBeam and ModelAsDiffuse, the values
\* of ScreenBeamReflectanceAccounting.
DoNotModel == "DoNotModel"
ModelAsDirectBeam == "ModelAsDirectBeam"
ModelAsDiffuse == "ModelAsDiffuse"

\* An Optional< ... > argument that is passed, and one that is not.
Passed(v) == [ present |-> TRUE, value |-> v ]
NotPassed == [ present |-> FALSE, value |-> 0 ]

\* present( arg ).
present(arg) == arg.present

\* The record of a call before it has computed anything; Number counts the calls.
BlankScreenCall(Number, SurfaceNum, Phi, Theta, ScreenNumber) ==
    [ Number                    |-> Number,
      SurfaceNum                |-> SurfaceNum,
      Phi                       |-> Phi,
      Theta                     |-> Theta,
      ScreenNumber              |-> ScreenNumber,
      Fatal                     |-> FALSE,
      ScNum                     |-> 0,
      SunAzimuthToScreenNormal  |-> 0,
      SunAltitudeToScreenNormal |-> 0,
      NormalAzimuth             |-> 0,
      NormalAltitude            |-> 0,
      UnassignedReads           |-> {},
      Within90                  |-> TRUE,
      Grazing                   |-> FALSE,
      Tdirect                   |-> 0,
      Tscattered                |-> 0,
      TscatteredVis             |-> 0 ]

\* No call has been made.
NoScreenCall == BlankScreenCall(0, 0, NotPassed, NotPassed, NotPassed)

\* A program without surfaces and screens.
NoScreens ==
    /\ Surface = << >>
    /\ SurfaceScreens = << >>
    /\ ScreenCall = NoScreenCall

---------------------------------------------------------------------------
(* The state machine.                                                      *)

Init ==
    /\ \/ \E n \in 0..MaxCoreLayers : \E layers \in SeqsOfLen(RefsForLength(n), n) :
          \E m \in WindowModels : Construct = << InputConstruction(layers, m[1], m[2]) >>
       \/ \E layers \in DoubleBGLayers \cup TripleBGLayers :
          \E m \in WindowModels : Construct = << InputConstruction(layers, m[1], m[2]) >>
       \/ \E layers \in EcoRoofLayers :
          \E m \in WindowModels : Construct = << InputConstruction(layers, m[1], m[2]) >>
       \/ \E n \in 2..MaxBatch : Construct \in [ 1..n -> BatchConstructions ]
    /\ TotConstructs = Len(Construct)
    /\ Blind = InputBlinds
    /\ TotBlinds = Len(Blind)
    /\ BlindCalls = << >>
    /\ NoScreens
    /\ ErrorsFound \in BOOLEAN
    /\ ErrorsFound0 = ErrorsFound
    /\ Validated = {}
    /\ LayerPointReads = {}
    /\ NominalRforNominalUCalculation =
          [ i \in 1..Len(Construct) |-> InputNominalR(Construct[i]) ]
    /\ NominalU = [ i \in 1..Len(Construct) |-> NominalUFor(InputNominalR(Construct[i])) ]
    /\ ReverseCalls = << >>

\* The groups of the layers of the two between-glass patterns of lines 833 and
\* 839, in the order the tests read them.
DoublePattern ==
    << { WindowGlass }, { WindowGas, WindowGasMixture }, { Shade, WindowBlind },
       { WindowGas, WindowGasMixture }, { WindowGlass } >>

TriplePattern ==
    << { WindowGlass }, { WindowGas, WindowGasMixture }, { WindowGlass },
       { WindowGas, WindowGasMixture }, { Shade, WindowBlind },
       { WindowGas, WindowGasMixture }, { WindowGlass } >>

\* Lines 833 and 839: the layers a pattern test looks up.  The conjuncts are
\* evaluated left to right and the test stops at the first that fails, so
\* layer k is looked up when the layers before it are of the groups of the pattern.
PatternLookups(c, pattern) ==
    { k \in 1..Len(pattern) :
        \A j \in 1..(k - 1) :
            /\ c.LayerPoint[j] # 0
            /\ Material[c.LayerPoint[j]].Group \in pattern[j] }

\* Lines 818-897: the layers the between-glass block looks up; the shade and
\* the gaps of lines 845-893 are layers of a pattern that was found valid.
BetweenGlassLookups(c) ==
    IF /\ IsBetweenGlass(c, CountShadeLayers(c))
       /\ ~ WrongLayeringAtEdges(c, CountShadeLayers(c))
    THEN IF CountGlassLayers(c) = 2 /\ c.TotLayers = 5 THEN PatternLookups(c, DoublePattern)
         ELSE IF CountGlassLayers(c) = 3 /\ c.TotLayers = 7 THEN PatternLookups(c, TriplePattern)
         ELSE {}
    ELSE {}

\* Lines 986-996: the layers the EcoRoof rule looks up; the loop over layers
\* 2..TotLayers has no test for a zero reference.
EcoRoofLookups(c) ==
    IF Material[c.LayerPoint[1]].Group = EcoRoof THEN 1..c.TotLayers ELSE { 1 }

\* Lines 717-1005: the layers whose reference is passed to Material( ... )
\* without a test for zero, for a construction that passed the returns of
\* lines 679-715 (layers 1 and TotLayers are referenced).  The loops of lines
\* 710, 722, 749, 785, 799 and 905 skip a zero reference and are not listed.
UntestedLookups(c) ==
    IF AnyWindowLayer(c)
    THEN IF c.WindowTypeBSDF \/ c.WindowTypeEQL
         THEN { 1, c.TotLayers }
         ELSE { 1, c.TotLayers } \cup BetweenGlassLookups(c)
                \cup { k \in { WindowInsideLayer(c) } : k > 0 }
                \cup EcoRoofLookups(c)
    ELSE { 1, c.TotLayers } \cup EcoRoofLookups(c)

\* The call for construction c looks up Material(0).
ReadsMaterial0(c) ==
    /\ c.TotLayers >= 1
    /\ c.LayerPoint[c.TotLayers] > 0
    /\ c.LayerPoint[1] # 0
    /\ \E k \in UntestedLookups(c) : c.LayerPoint[k] = 0

\* The values the out-of-bounds reads of one call can yield.  Material(0) is
\* an element outside the array Material(1..TotMaterials), LayerPoint(0) is
\* read only when TotLayers = 0.
Material0Values(c) ==
    IF ReadsMaterial0(c) THEN GarbageMaterials ELSE { JunkMaterial }

LayerPoint0Values(c) == IF c.TotLayers = 0 THEN { 0 - 1, 0, 1 } ELSE { 0 }

\* The return of a call for ConstrNum with result r: the record and the flag are stored.
Returns(ConstrNum, r) ==
    /\ Construct' = [ Construct EXCEPT ![ConstrNum] = r.con ]
    /\ ErrorsFound' = r.err

\* Lines 677-679: InsideLayer = TotLayers is the slot of LayerPoint the first
\* test of the routine reads, before TotLayers is compared with 0.
EntryRead(ConstrNum, c) == << ConstrNum, c.TotLayers >>

\* One call CheckAndSetConstructionProperties( ConstrNum, ErrorsFound ), made
\* once for every construction during set-up.
CheckAndSetConstructionProperties(ConstrNum) ==
    /\ ConstrNum \notin Validated
    /\ \E g \in Material0Values(Construct[ConstrNum]) :
       \E s0 \in LayerPoint0Values(Construct[ConstrNum]) :
          Returns(ConstrNum, CheckedConstruction(Construct[ConstrNum], ErrorsFound, Blind, g, s0))
    /\ Validated' = Validated \cup { ConstrNum }
    /\ LayerPointReads' = LayerPointReads \cup { EntryRead(ConstrNum, Construct[ConstrNum]) }
    /\ UNCHANGED << TotConstructs, Blind, ErrorsFound0,
                    NominalRforNominalUCalculation, NominalU, ReverseCalls,
                    TotBlinds, BlindCalls >>
    /\ UNCHANGED screenVars

Next == \E ConstrNum \in 1..TotConstructs : CheckAndSetConstructionProperties(ConstrNum)

Spec == Init /\ [][Next]_vars

---------------------------------------------------------------------------
(* AssignReverseConstructionNumber, DataHeatBalance.cc lines 1009-1136.    *)
(* A Name is kept as its significant characters, without the blank padding *)
(* of the fixed-length field that trim() removes.                          *)

\* Lines 1064-1069: the local LayerPoint after "LayerPoint = 0" and the loop
\* that walks the layers of c from TotLayers down to 1.
ReversedLayerPoint(c) ==
    [ nLayer \in 1..MaxLayersInConstruct |->
        IF nLayer <= c.TotLayers THEN c.LayerPoint[c.TotLayers + 1 - nLayer] ELSE 0 ]

\* Lines 1074-1080: Found for entry Loop, all MaxLayersInConstruct slots compared.
MatchesReverse(con, Loop, LayerPoint) ==
    \A nLayer \in 1..MaxLayersInConstruct : con[Loop].LayerPoint[nLayer] = LayerPoint[nLayer]

\* Lines 1072-1085 with the loop guard "Loop < TotConstructs": the last entry
\* is never compared.
FindReverse_SkipsLast(con, tot, LayerPoint) ==
    IF \E Loop \in 1..(tot - 1) : MatchesReverse(con, Loop, LayerPoint)
    THEN CHOOSE Loop \in 1..(tot - 1) :
            /\ MatchesReverse(con, Loop, LayerPoint)
            /\ \A k \in 1..(Loop - 1) : ~ MatchesReverse(con, k, LayerPoint)
    ELSE 0

\* Lines 1072-1085: NewConstrNum after the search, the first match or 0.
FindReverse(con, tot, LayerPoint) ==
    IF \E Loop \in 1..tot : MatchesReverse(con, Loop, LayerPoint)
    THEN CHOOSE Loop \in 1..tot :
            /\ MatchesReverse(con, Loop, LayerPoint)
            /\ \A k \in 1..(Loop - 1) : ~ MatchesReverse(con, k, LayerPoint)
    ELSE 0

\* Lines 1112-1119 with the layers of the copied construction left in place.
NewReverseEntry_SameOrder(c, LayerPoint) ==
    [ c EXCEPT !.IsUsed = TRUE,
               !.Name = "iz-" \o c.Name,
               !.TotLayers = c.TotLayers ]

\* Lines 1112-1119: the new entry before it is validated, c being
\* Construct( ConstrNum ) with IsUsed already set by line 1063.
NewReverseEntry(c, LayerPoint) ==
    [ c EXCEPT !.IsUsed = TRUE,
               !.Name = "iz-" \o c.Name,
               !.TotLayers = c.TotLayers,
               !.LayerPoint = LayerPoint ]

\* Lines 1093-1094, 1117-1122 with the new slot started from the resistance
\* of the last existing entry instead of 0.0.
NewNominalR_CarryOver(LayerPoint) ==
    AddNominalR(LayerPoint, 1, NominalRforNominalUCalculation[TotConstructs])

\* Lines 1093-1094, 1117-1122: the resistance of the new entry, accumulated
\* onto the 0.0 NominalRSave holds beyond the copied entries.
NewNominalR(LayerPoint) == AddNominalR(LayerPoint, 1, 0)

\* The return of a call: the argument, the returned number and the size of
\* the registry before the call are recorded.
ReverseReturns(ConstrNum, NewConstrNum) ==
    ReverseCalls' = Append(ReverseCalls, [ ConstrNum     |-> ConstrNum,
                                           NewConstrNum  |-> NewConstrNum,
                                           TotConstructs |-> TotConstructs ])

\* Lines 1057-1061: ConstrNum = 0.
ReverseOfNone ==
    /\ ReverseReturns(0, 0)
    /\ UNCHANGED << Construct, TotConstructs, Blind, ErrorsFound, Validated, ErrorsFound0,
                    LayerPointReads, NominalRforNominalUCalculation, NominalU,
                    TotBlinds, BlindCalls >>

\* Lines 1063-1085, 1134: a match is found.
ReverseFound(ConstrNum, NewConstrNum) ==
    /\ NewConstrNum # 0
    /\ Construct' = [ Construct EXCEPT ![ConstrNum].IsUsed = TRUE ]
    /\ ReverseReturns(ConstrNum, NewConstrNum)
    /\ UNCHANGED << TotConstructs, Blind, ErrorsFound, Validated, ErrorsFound0,
                    LayerPointReads, NominalRforNominalUCalculation, NominalU,
                    TotBlinds, BlindCalls >>

\* Lines 1088-1132 without lines 1094 and 1096: the saved resistances and
\* conductances of the existing entries are not copied back.
ReverseAppended_NoRestore(ConstrNum, LayerPoint, new, r) ==
    /\ Construct' = Append([ Construct EXCEPT ![ConstrNum].IsUsed = TRUE ], r.con)
    /\ TotConstructs' = TotConstructs + 1
    /\ NominalRforNominalUCalculation' =
          Append([ i \in 1..TotConstructs |-> 0 ], NewNominalR(LayerPoint))
    /\ NominalU' =
          Append([ i \in 1..TotConstructs |-> ZeroU ], NominalUFor(NewNominalR(LayerPoint)))
    /\ ErrorsFound' = r.err
    /\ Validated' = Validated \cup { TotConstructs + 1 }
    /\ LayerPointReads' = LayerPointReads \cup { EntryRead(TotConstructs + 1, new) }
    /\ ReverseReturns(ConstrNum, TotConstructs + 1)
    /\ UNCHANGED << Blind, ErrorsFound0, TotBlinds, BlindCalls >>

\* Lines 1088-1132, where CheckAndSetConstructionProperties returned r for
\* the new entry: the registry grown by the validated entry.
ReverseAppended(ConstrNum, LayerPoint, new, r) ==
    /\ Construct' = Append([ Construct EXCEPT ![ConstrNum].IsUsed = TRUE ], r.con)
    /\ TotConstructs' = TotConstructs + 1
    /\ NominalRforNominalUCalculation' =
          Append(NominalRforNominalUCalculation, NewNominalR(LayerPoint))
    /\ NominalU' = Append(NominalU, NominalUFor(NewNominalR(LayerPoint)))
    /\ ErrorsFound' = r.err
    /\ Validated' = Validated \cup { TotConstructs + 1 }
    /\ LayerPointReads' = LayerPointReads \cup { EntryRead(TotConstructs + 1, new) }
    /\ ReverseReturns(ConstrNum, TotConstructs + 1)
    /\ UNCHANGED << Blind, ErrorsFound0, TotBlinds, BlindCalls >>

\* Lines 1088-1132: no match, a new entry is made and validated.
ReverseNotFound(ConstrNum, LayerPoint, new) ==
    \E g \in Material0Values(new) : \E s0 \in LayerPoint0Values(new) :
        ReverseAppended(ConstrNum, LayerPoint, new,
                        CheckedConstruction(new, ErrorsFound, Blind, g, s0))

\* Lines 1063-1134 for ConstrNum # 0, LayerPoint the reversed layers.
ReverseOf(ConstrNum, LayerPoint) ==
    IF FindReverse(Construct, TotConstructs, LayerPoint) # 0
    THEN ReverseFound(ConstrNum, FindReverse(Construct, TotConstructs, LayerPoint))
    ELSE ReverseNotFound(ConstrNum, LayerPoint,
                         NewReverseEntry([ Construct[ConstrNum] EXCEPT !.IsUsed = TRUE ],
                                         LayerPoint))

\* One call AssignReverseConstructionNumber( ConstrNum, ErrorsFound ).
AssignReverseConstructionNumber(ConstrNum) ==
    /\ Len(ReverseCalls) < MaxReverseCalls
    /\ UNCHANGED screenVars
    /\ IF ConstrNum = 0
       THEN ReverseOfNone
       ELSE ReverseOf(ConstrNum, ReversedLayerPoint(Construct[ConstrNum]))

\* The layers of the constructions in the registry when the surfaces are
\* read: an opaque wall, a window and its mirror image, a roof, a screen with
\* a blind, a construction without layers, and constructions with an
\* unresolved layer reference.
RegistryLayers ==
    { << 1 >>, << 4 >>, << 4, 5, 20 >>, << 20, 5, 4 >>, << 9, 1 >>, << 8, 6 >>,
      << >>, << 4, 0 >>, << 0, 4 >> }

\* The names of the constructions of the input, by construction number.
ConstructionNames == << "C1", "C2", "C3", "C4" >>

\* Entry ConstrNum of the registry as the input processor leaves it: read,
\* named and validated.
RegistryEntry(ConstrNum, layers) ==
    [ CheckedConstruction(InputConstruction(layers, FALSE, FALSE), FALSE, InputBlinds,
                          JunkMaterial, 0).con
      EXCEPT !.Name = ConstructionNames[ConstrNum] ]

InitReverse ==
    /\ \E n \in 1..MaxRegistry : \E layers \in [ 1..n -> RegistryLayers ] :
          Construct = [ i \in 1..n |-> RegistryEntry(i, layers[i]) ]
    /\ TotConstructs = Len(Construct)
    /\ Blind = InputBlinds
    /\ TotBlinds = Len(Blind)
    /\ BlindCalls = << >>
    /\ NoScreens
    /\ ErrorsFound \in BOOLEAN
    /\ ErrorsFound0 = ErrorsFound
    /\ Validated = 1..TotConstructs
    /\ LayerPointReads = { EntryRead(i, Construct[i]) : i \in 1..TotConstructs }
    /\ NominalRforNominalUCalculation =
          [ i \in 1..TotConstructs |-> InputNominalR(Construct[i]) ]
    /\ NominalU = [ i \in 1..TotConstructs |-> NominalUFor(InputNominalR(Construct[i])) ]
    /\ ReverseCalls = << >>

NextReverse == \E ConstrNum \in 0..TotConstructs : AssignReverseConstructionNumber(ConstrNum)

SpecReverse == InitReverse /\ [][NextReverse]_vars

---------------------------------------------------------------------------
(* AddVariableSlatBlind, DataHeatBalance.cc lines 1138-1250.               *)

\* std::asin( num / den ) / DegToRadians of line 1207, in degrees.  The blinds
\* of the model have SlatThickness / ( SlatThickness + SlatSeparation ) equal
\* to 0, 1/2 or 1, where the arcsine is exactly 0, 30 and 90 degrees.
AsinDegrees(num, den) ==
    IF num = 0 THEN 0 ELSE IF 2 * num = den THEN 30 ELSE 90

\* Lines 1206-1210: the smallest slat angle the slat geometry allows.
MinSlatAngGeom(b) ==
    IF b.SlatWidth > b.SlatSeparation
    THEN AsinDegrees(b.SlatThickness, b.SlatThickness + b.SlatSeparation)
    ELSE 0

\* Line 1211: the largest slat angle the slat geometry allows.
MaxSlatAngGeom(b) == 180 - MinSlatAngGeom(b)

\* InputProcessor::FindItemInList( String, ListOfItems, NumItems ): the number
\* of the first of the NumItems names equal to String, 0 when there is none.
FindItemInList(String, ListOfItems, NumItems) ==
    IF \E Count \in 1..NumItems : ListOfItems[Count] = String
    THEN CHOOSE Count \in 1..NumItems :
            /\ ListOfItems[Count] = String
            /\ \A k \in 1..(Count - 1) : ListOfItems[k] # String
    ELSE 0

\* Lines 1215-1227 without the test of line 1215.
BlindAngleError_RangeOnly(b) ==
    /\ b.MaxSlatAngle > b.MinSlatAngle
    /\ (b.SlatAngle < b.MinSlatAngle \/ b.SlatAngle > b.MaxSlatAngle)

\* Lines 1215-1227: errFlag after the two tests of the declared angles, which
\* read the angles of the copy before any clamp.
BlindAngleError(b) ==
    \/ b.MaxSlatAngle < b.MinSlatAngle
    \/ /\ b.MaxSlatAngle > b.MinSlatAngle
       /\ (b.SlatAngle < b.MinSlatAngle \/ b.SlatAngle > b.MaxSlatAngle)

\* Lines 1200-1245 without the renaming of line 1201.
VariableSlatBlind_SameName(b) ==
    [ b EXCEPT
        !.SlatAngleType = VariableSlats,
        !.MinSlatAngle = IF @ < MinSlatAngGeom(b) THEN MinSlatAngGeom(b) ELSE @,
        !.MaxSlatAngle = IF @ > MaxSlatAngGeom(b) THEN MaxSlatAngGeom(b) ELSE @ ]

\* Lines 1200-1245 without the clamp of lines 1231-1236.
VariableSlatBlind_NoMinClamp(b) ==
    [ b EXCEPT
        !.Name = "~" \o b.Name,
        !.SlatAngleType = VariableSlats,
        !.MaxSlatAngle = IF @ > MaxSlatAngGeom(b) THEN MaxSlatAngGeom(b) ELSE @ ]

\* Lines 1200-1245: Blind( TotBlinds ) on return, the copy of blind b renamed,
\* made variable and with its declared angles clamped to the slat geometry.
VariableSlatBlind(b) ==
    [ b EXCEPT
        !.Name = "~" \o b.Name,
        !.SlatAngleType = VariableSlats,
        !.MinSlatAngle = IF @ < MinSlatAngGeom(b) THEN MinSlatAngGeom(b) ELSE @,
        !.MaxSlatAngle = IF @ > MaxSlatAngGeom(b) THEN MaxSlatAngGeom(b) ELSE @ ]

\* The return of a call: the argument, the two outputs and the size of the
\* registry before the call are recorded.
BlindReturns(inBlindNumber, outBlindNumber, errFlag) ==
    BlindCalls' = Append(BlindCalls, [ inBlindNumber  |-> inBlindNumber,
                                       outBlindNumber |-> outBlindNumber,
                                       errFlag        |-> errFlag,
                                       TotBlinds      |-> TotBlinds ])

\* Lines 1189, 1246-1248: the clone is already there.
BlindFound(inBlindNumber, Found) ==
    /\ BlindReturns(inBlindNumber, Found, FALSE)
    /\ UNCHANGED << Blind, TotBlinds >>

\* Lines 1189-1245: a new blind is added.
BlindAdded(inBlindNumber) ==
    /\ Blind' = Append(Blind, VariableSlatBlind(Blind[inBlindNumber]))
    /\ TotBlinds' = TotBlinds + 1
    /\ BlindReturns(inBlindNumber, TotBlinds + 1, BlindAngleError(Blind[inBlindNumber]))

\* The names Blind.Name() of the registry.
BlindNames == [ i \in 1..TotBlinds |-> Blind[i].Name ]

\* One call AddVariableSlatBlind( inBlindNumber, outBlindNumber, errFlag ).
AddVariableSlatBlind(inBlindNumber) ==
    /\ Len(BlindCalls) < MaxBlindCalls
    /\ IF FindItemInList("~" \o Blind[inBlindNumber].Name, BlindNames, TotBlinds) = 0
       THEN BlindAdded(inBlindNumber)
       ELSE BlindFound(inBlindNumber,
                       FindItemInList("~" \o Blind[inBlindNumber].Name, BlindNames, TotBlinds))
    /\ UNCHANGED << Construct, TotConstructs, ErrorsFound, Validated, ErrorsFound0,
                    LayerPointReads, NominalRforNominalUCalculation, NominalU, ReverseCalls >>
    /\ UNCHANGED screenVars

\* Slat width, separation and thickness of the blinds of the input: slats
\* narrower than their separation, and slats wider than their separation
\* and as thick as it.
SlatGeometries == { << 200, 250, 10 >>, << 300, 250, 250 >> }

\* Declared slat angle, minimum and maximum of the blinds of the input.
SlatAngles == { 10, 45, 175 }
MinSlatAngles == { 0, 20, 45 }
MaxSlatAngles == { 20, 45, 170, 180 }

\* The names of the blinds of the input, by blind number; "~" is the prefix
\* reserved for the clones.
InputBlindNames == << "B1", "B2", "B3", "B4" >>

\* The blinds the first entry of the registry is drawn from.
BlindCatalogue(name) ==
    { MakeBlind(name, geo[1], geo[2], geo[3], angle, min, max) :
        geo \in SlatGeometries, angle \in SlatAngles,
        min \in MinSlatAngles, max \in MaxSlatAngles }

\* The blinds the other entries are drawn from, before they are named.
OtherBlinds ==
    { MakeBlind("B", 200, 250, 10, 45, 0, 180),
      MakeBlind("B", 300, 250, 250, 45, 45, 20) }

InitBlind ==
    /\ \E n \in 1..MaxBlinds : \E first \in BlindCatalogue(InputBlindNames[1]) :
          \E others \in [ 2..n -> OtherBlinds ] :
             Blind = [ i \in 1..n |->
                         IF i = 1 THEN first
                         ELSE [ others[i] EXCEPT !.Name = InputBlindNames[i] ] ]
    /\ TotBlinds = Len(Blind)
    /\ BlindCalls = << >>
    /\ NoScreens
    /\ Construct = << >>
    /\ TotConstructs = 0
    /\ ErrorsFound = FALSE
    /\ ErrorsFound0 = FALSE
    /\ Validated = {}
    /\ LayerPointReads = {}
    /\ NominalRforNominalUCalculation = << >>
    /\ NominalU = << >>
    /\ ReverseCalls = << >>

NextBlind == \E inBlindNumber \in 1..TotBlinds : AddVariableSlatBlind(inBlindNumber)

SpecBlind == InitBlind /\ [][NextBlind]_vars


---------------------------------------------------------------------------
(* CalcScreenTransmittance, DataHeatBalance.cc lines 1252-1568.  The       *)
(* arithmetic is that of the real numbers, on values for which it is exact *)
(* in units of 0.0001; what the trigonometric and exponential expressions  *)
(* yield at angles other than 0 and 90 degrees is drawn from a set.        *)

max(a, b) == IF a < b THEN b ELSE a

Abs(x) == IF x < 0 THEN 0 - x ELSE x

\* The product of two reals.
Times(a, b) == (a * b) \div One

\* Lines 1361-1363 with the test of Phi forgotten.
MissingAngles_ThetaOnly(Phi, Theta) == ~ present(Theta)

\* Line 1363: ! present( Theta ) || ! present( Phi ).
MissingAngles(Phi, Theta) == ~ present(Theta) \/ ~ present(Phi)

\* Lines 1371-1378: SunAzimuthToScreenNormal from the argument Theta.
AzimuthFromTheta(Theta) ==
    IF Abs(Theta) > Pi THEN 0
    ELSE IF Abs(Theta) > PiOvr2 THEN Pi - Abs(Theta)
    ELSE Abs(Theta)

\* Line 1382: SunAzimuth from atan2( SOLCOS( 1 ), SOLCOS( 2 ) ) = a, a in (-180, 180].
SunAzimuthFrom(a) == IF a < 0 THEN a + 2 * Pi ELSE a

\* Lines 1386-1390: SunAzimuthToScreenNormal from the sun and the surface.
AzimuthFromSun(SunAzimuth, SurfaceAzimuth) ==
    IF Abs(SunAzimuth - SurfaceAzimuth) > PiOvr2
    THEN Abs(SunAzimuth - SurfaceAzimuth) - PiOvr2
    ELSE Abs(SunAzimuth - SurfaceAzimuth)

\* Lines 1394-1397: SunAltitudeToScreenNormal from the argument Phi.
AltitudeFromPhi(Phi) ==
    IF Abs(Phi) > PiOvr2 THEN Pi - Abs(Phi) ELSE Abs(Phi)

\* Line 1400: SunAltitude from acos( SOLCOS( 3 ) ) = a, a in 0..180.
SunAltitudeFrom(a) == PiOvr2 - a

\* Lines 1402-1405: SunAltitudeToScreenNormal from the sun and the surface.
AltitudeFromSun(SunAltitude, SurfaceTilt) ==
    IF Abs(SunAltitude + (SurfaceTilt - PiOvr2)) > PiOvr2
    THEN Abs(SunAltitude + (SurfaceTilt - PiOvr2)) - PiOvr2
    ELSE Abs(SunAltitude + (SurfaceTilt - PiOvr2))

\* Surface( SurfaceNum ) and SurfaceWindow( SurfaceNum ); the arrays are indexed
\* from 1, and a read outside them finds a record that is no surface.
SurfaceData(SurfaceNum) ==
    IF SurfaceNum \in DOMAIN Surface THEN Surface[SurfaceNum]
    ELSE [ Azimuth |-> 0, Tilt |-> 0, ScreenNumber |-> 1 ]

\* Lines 1370-1406: the locals after the two normalisations.  sun holds the
\* values of atan2( SOLCOS( 1 ), SOLCOS( 2 ) ) and acos( SOLCOS( 3 ) );
\* Assigned lists the locals that have been given a value.
ScreenAngles(SurfaceNum, Phi, Theta, sun) ==
    [ SunAzimuthToScreenNormal |->
          IF present(Theta) THEN AzimuthFromTheta(Theta.value)
          ELSE AzimuthFromSun(SunAzimuthFrom(sun[1]), SurfaceData(SurfaceNum).Azimuth),
      NormalAzimuth |->
          IF present(Theta) THEN AzimuthFromTheta(Theta.value)
          ELSE SunAzimuthFrom(sun[1]) - SurfaceData(SurfaceNum).Azimuth,
      SunAltitudeToScreenNormal |->
          IF present(Phi) THEN AltitudeFromPhi(Phi.value)
          ELSE AltitudeFromSun(SunAltitudeFrom(sun[2]), SurfaceData(SurfaceNum).Tilt),
      SunAltitude |->
          IF present(Phi) THEN AltitudeFromPhi(Phi.value) ELSE SunAltitudeFrom(sun[2]),
      Assigned |->
          { "SunAzimuthToScreenNormal", "NormalAzimuth", "SunAltitudeToScreenNormal",
            "SunAltitude" }
          \cup (IF present(Theta) THEN {} ELSE { "SunAzimuth", "SurfaceAzimuth" })
          \cup (IF present(Phi) THEN {} ELSE { "SurfaceTilt" }) ]

\* Lines 1408-1412: the locals the computation of NormalAltitude reads.
NormalAltitudeReads(SurfaceNum, ScreenNumber) ==
    IF SurfaceNum = 0 \/ ~ present(ScreenNumber)
    THEN { "SunAltitude" }
    ELSE { "SunAltitude", "SurfaceTilt" }

\* What the read of a local that was never assigned can yield for SurfaceTilt.
UnassignedTilts == { 0, 270 }

\* Lines 1408-1412: the values NormalAltitude can take.
NormalAltitudes(SurfaceNum, Phi, ScreenNumber, SunAltitude) ==
    IF SurfaceNum = 0 \/ ~ present(ScreenNumber)
    THEN { SunAltitude }
    ELSE { SunAltitude + (SurfaceTilt - PiOvr2) :
             SurfaceTilt \in IF present(Phi) THEN UnassignedTilts
                             ELSE { SurfaceData(SurfaceNum).Tilt } }

\* The sign of the cosine of an angle.
CosSign(angle) ==
    IF angle % 360 < 90 \/ angle % 360 > 270 THEN 1
    ELSE IF angle % 360 = 90 \/ angle % 360 = 270 THEN 0
    ELSE 0 - 1

\* Lines 1414-1422: whether std::abs( IncidentAngle ) <= PiOvr2.  The quotient
\* of line 1415 is cos( NormalAltitude ) * cos( NormalAzimuth ); where that is
\* 0 the rounding of the arc cosine decides.
IncidentWithin90(NormalAltitude, NormalAzimuth) ==
    IF NormalAltitude # 0 /\ NormalAzimuth # 0
    THEN IF CosSign(NormalAltitude) * CosSign(NormalAzimuth) > 0 THEN { TRUE }
         ELSE IF CosSign(NormalAltitude) * CosSign(NormalAzimuth) < 0 THEN { FALSE }
         ELSE BOOLEAN
    ELSE IF NormalAltitude # 0 THEN { Abs(NormalAltitude) <= PiOvr2 }
    ELSE IF NormalAzimuth # 0 THEN { Abs(NormalAzimuth) <= PiOvr2 }
    ELSE { TRUE }

\* The value of the factor of Gamma in lines 1436 and 1450 away from normal incidence.
ProjectionFactors == { 2 * One }

\* Lines 1435-1436, 1447-1450: the factor of Gamma, cos + sin * tan * sqrt,
\* of a component; at azimuth 0 and altitude 0 the angles AlphaDblPrime and
\* MuPrime are 0 and the factor is cos( 0 ) = 1.
ProjectionFactor(azimuth, altitude) ==
    IF azimuth = 0 /\ altitude = 0 THEN { One } ELSE ProjectionFactors

\* Lines 1433-1443: TransYDir.
TransYDir(azimuth, altitude, Gamma) ==
    IF PiOvr2 - azimuth > 0
    THEN IF Abs(altitude - PiOvr2) > 0
         THEN { max(0, One - Times(Gamma, f)) : f \in ProjectionFactor(azimuth, altitude) }
         ELSE { 0 }
    ELSE { 0 }

\* Lines 1445-1463: TransXDir.  COSMu is 0 for altitude 0 and azimuth 90,
\* cos( Epsilon ) is cos( altitude ) * cos( azimuth ) / COSMu and Eta is 0
\* where that is 0; there the rounding decides between 0.0 and the formula.
TransXDir(azimuth, altitude, Gamma) ==
    IF altitude = 0 /\ azimuth = PiOvr2
    THEN { One - Gamma }
    ELSE { max(0, One - Times(Gamma, f)) : f \in ProjectionFactor(azimuth, altitude) }
         \cup (IF CosSign(altitude) * CosSign(azimuth) = 0 THEN { 0 } ELSE {})

\* Line 1465 with the smaller component taken instead of the product.
Tdirect_Smaller(x, y) == max(0, IF x < y THEN x ELSE y)

\* Line 1465: Tdirect = max( 0.0, TransXDir * TransYDir ).
Tdirect(x, y) == max(0, Times(x, y))

\* Line 1474: the sun grazes the screen.
Grazing(azimuth, altitude) ==
    Abs(azimuth - PiOvr2) < 1 \/ Abs(altitude - PiOvr2) < 1

\* The values of the empirical scattering model of lines 1479-1504 for the
\* solar and the visible reflectance, after the max( 0.0, ... ) of lines 1507-1508.
ScatteredValues == { << 0, 0 >>, << 1000, 2000 >>, << 6000, 0 >> }

\* Lines 1474-1508: Tscattered and TscatteredVis.
Tscattered(azimuth, altitude) ==
    IF Grazing(azimuth, altitude) THEN { << 0, 0 >> } ELSE ScatteredValues

\* Lines 1510-1542 with the scattered part added to the beam in every mode.
BeamBeam_EveryMode(mode, Td, Ts) == Td + Ts

\* Lines 1510-1542: the beam-beam transmittance of a mode.
BeamBeam(mode, Td, Ts) == IF mode = ModelAsDirectBeam THEN Td + Ts ELSE Td

\* Lines 1520-1521, 1532-1533: Tscattered after the block of the mode.
ScatteredAfter(mode, Ts) == IF mode = ModelAsDiffuse THEN Ts ELSE 0

\* Lines 1510-1566: the record of the screen after the call.
StoredScreen(s, Within90, Td, Ts, TsVis) ==
    LET mode == s.ScreenBeamReflectanceAccounting
    IN  IF Within90
        THEN [ s EXCEPT
                 !.BmBmTrans = BeamBeam(mode, Td, Ts),
                 !.BmBmTransVis = BeamBeam(mode, Td, TsVis),
                 !.BmBmTransBack = 0,
                 !.BmDifTrans = ScatteredAfter(mode, Ts),
                 !.BmDifTransVis = ScatteredAfter(mode, TsVis),
                 !.BmDifTransBack = 0,
                 !.ReflectSolBeamFront =
                     max(0, Times(s.ReflectCylinder, One - Td) - ScatteredAfter(mode, Ts)),
                 !.ReflectVisBeamFront =
                     max(0, Times(s.ReflectCylinderVis, One - Td) - ScatteredAfter(mode, TsVis)),
                 !.AbsorpSolarBeamFront = max(0, Times(One - Td, One - s.ReflectCylinder)),
                 !.ReflectSolBeamBack = 0,
                 !.ReflectVisBeamBack = 0,
                 !.AbsorpSolarBeamBack = 0 ]
        ELSE [ s EXCEPT
                 !.BmBmTrans = 0,
                 !.BmBmTransVis = 0,
                 !.BmBmTransBack = BeamBeam(mode, Td, Ts),
                 !.BmDifTrans = 0,
                 !.BmDifTransVis = 0,
                 !.BmDifTransBack = ScatteredAfter(mode, Ts),
                 !.ReflectSolBeamBack =
                     max(0, Times(s.ReflectCylinder, One - Td) - ScatteredAfter(mode, Ts)),
                 !.ReflectVisBeamBack =
                     max(0, Times(s.ReflectCylinderVis, One - Td) - ScatteredAfter(mode, TsVis)),
                 !.AbsorpSolarBeamBack = max(0, Times(One - Td, One - s.ReflectCylinder)),
                 !.ReflectSolBeamFront = 0,
                 !.ReflectVisBeamFront = 0,
                 !.AbsorpSolarBeamFront = 0 ]

\* UtilityRoutines::ShowFatalError: the program halts, the call does not go on.
ShowFatalError(call) ==
    /\ ScreenCall' = [ call EXCEPT !.Fatal = TRUE ]
    /\ UNCHANGED SurfaceScreens

\* Lines 1360, 1367: ScNum.
ScreenIndex(SurfaceNum, ScreenNumber) ==
    IF present(ScreenNumber) THEN ScreenNumber.value
    ELSE SurfaceData(SurfaceNum).ScreenNumber

\* Lines 1370-1566 for the locals a and the outcomes chosen: NormalAltitude,
\* the side, the two components and the scattered transmittances.
ScreenComputed(call, ScNum, a, NormalAltitude, Within90, x, y, Ts, TsVis) ==
    /\ ScreenCall' =
          [ call EXCEPT
              !.ScNum = ScNum,
              !.SunAzimuthToScreenNormal = a.SunAzimuthToScreenNormal,
              !.SunAltitudeToScreenNormal = a.SunAltitudeToScreenNormal,
              !.NormalAzimuth = a.NormalAzimuth,
              !.NormalAltitude = NormalAltitude,
              !.UnassignedReads =
                  NormalAltitudeReads(call.SurfaceNum, call.ScreenNumber) \ a.Assigned,
              !.Within90 = Within90,
              !.Grazing = Grazing(a.SunAzimuthToScreenNormal, a.SunAltitudeToScreenNormal),
              !.Tdirect = Tdirect(x, y),
              !.Tscattered = Ts,
              !.TscatteredVis = TsVis ]
    /\ SurfaceScreens' =
          [ SurfaceScreens EXCEPT
              ![ScNum] = StoredScreen(SurfaceScreens[ScNum], Within90, Tdirect(x, y), Ts, TsVis) ]

\* Lines 1370-1566: a call that passed the test of the arguments.
ScreenCalculation(call, ScNum, a) ==
    \E NormalAltitude \in NormalAltitudes(call.SurfaceNum, call.Phi, call.ScreenNumber,
                                          a.SunAltitude) :
    \E Within90 \in IncidentWithin90(NormalAltitude, a.NormalAzimuth) :
    \E x \in TransXDir(a.SunAzimuthToScreenNormal, a.SunAltitudeToScreenNormal,
                       SurfaceScreens[ScNum].ScreenDiameterToSpacingRatio) :
    \E y \in TransYDir(a.SunAzimuthToScreenNormal, a.SunAltitudeToScreenNormal,
                       SurfaceScreens[ScNum].ScreenDiameterToSpacingRatio) :
    \E Ts \in Tscattered(a.SunAzimuthToScreenNormal, a.SunAltitudeToScreenNormal) :
        ScreenComputed(call, ScNum, a, NormalAltitude, Within90, x, y, Ts[1], Ts[2])

\* The values of atan2( SOLCOS( 1 ), SOLCOS( 2 ) ) and acos( SOLCOS( 3 ) ) at
\* the time of a call: the sun in the east and high, and in the north-west and
\* below the horizon.
SunPositions == { << 100, 30 >>, << 0 - 10, 120 >> }

\* One call CalcScreenTransmittance( SurfaceNum, Phi, Theta, ScreenNumber ).
\* A call without ScreenNumber is made for a surface.
CalcScreenTransmittance(SurfaceNum, Phi, Theta, ScreenNumber) ==
    /\ ScreenCall.Number < MaxScreenCalls
    /\ present(ScreenNumber) \/ SurfaceNum # 0
    /\ IF present(ScreenNumber) /\ MissingAngles(Phi, Theta)
       THEN ShowFatalError(BlankScreenCall(ScreenCall.Number + 1, SurfaceNum, Phi, Theta,
                                           ScreenNumber))
       ELSE \E sun \in SunPositions :
               ScreenCalculation(BlankScreenCall(ScreenCall.Number + 1, SurfaceNum, Phi,
                                                 Theta, ScreenNumber),
                                 ScreenIndex(SurfaceNum, ScreenNumber),
                                 ScreenAngles(SurfaceNum, Phi, Theta, sun))
    /\ UNCHANGED << Construct, TotConstructs, Blind, ErrorsFound, Validated, ErrorsFound0,
                    LayerPointReads, NominalRforNominalUCalculation, NominalU, ReverseCalls,
                    TotBlinds, BlindCalls, Surface >>

\* Azimuth and tilt of the surfaces of the input, in degrees: a wall facing
\* north by east and a roof.
SurfaceOrientations == { << 10, 90 >>, << 180, 0 >> }

\* Diameter-to-spacing ratio and reflectances of the screens of the input.
GammaValues == { 0, 5000, 10000 }
ReflectCylinderValues == { 0, 5000, 10000 }
ReflectCylinderVisValues == { 4000 }

ScreenModes == { DoNotModel, ModelAsDirectBeam, ModelAsDiffuse }

\* One SurfaceScreenProperties record as read from input, nothing computed yet.
InputScreen(Gamma, ReflectCylinder, ReflectCylinderVis, mode) ==
    [ ScreenDiameterToSpacingRatio    |-> Gamma,
      ReflectCylinder                 |-> ReflectCylinder,
      ReflectCylinderVis              |-> ReflectCylinderVis,
      ScreenBeamReflectanceAccounting |-> mode,
      BmBmTrans            |-> 0,
      BmBmTransVis         |-> 0,
      BmBmTransBack        |-> 0,
      BmDifTrans           |-> 0,
      BmDifTransVis        |-> 0,
      BmDifTransBack       |-> 0,
      ReflectSolBeamFront  |-> 0,
      ReflectVisBeamFront  |-> 0,
      AbsorpSolarBeamFront |-> 0,
      ReflectSolBeamBack   |-> 0,
      ReflectVisBeamBack   |-> 0,
      AbsorpSolarBeamBack  |-> 0 ]

\* The angles passed for Theta and for Phi.
ThetaValues == { 0 - 100, 0, 90, 200 }
PhiValues == { 0, 45, 200 }

OptionalTheta == { NotPassed } \cup { Passed(v) : v \in ThetaValues }
OptionalPhi == { NotPassed } \cup { Passed(v) : v \in PhiValues }
OptionalScreenNumber == { NotPassed } \cup { Passed(v) : v \in 1..Len(SurfaceScreens) }

InitScreen ==
    /\ \E o \in SurfaceOrientations :
          Surface = << [ Azimuth |-> o[1], Tilt |-> o[2], ScreenNumber |-> 1 ] >>
    /\ \E Gamma \in GammaValues : \E r \in ReflectCylinderValues :
       \E rv \in ReflectCylinderVisValues : \E mode \in ScreenModes :
          SurfaceScreens = << InputScreen(Gamma, r, rv, mode) >>
    /\ ScreenCall = NoScreenCall
    /\ Blind = << >>
    /\ TotBlinds = 0
    /\ BlindCalls = << >>
    /\ Construct = << >>
    /\ TotConstructs = 0
    /\ ErrorsFound = FALSE
    /\ ErrorsFound0 = FALSE
    /\ Validated = {}
    /\ LayerPointReads = {}
    /\ NominalRforNominalUCalculation = << >>
    /\ NominalU = << >>
    /\ ReverseCalls = << >>

NextScreen ==
    \E SurfaceNum \in 0..Len(Surface) : \E Phi \in OptionalPhi :
    \E Theta \in OptionalTheta : \E ScreenNumber \in OptionalScreenNumber :
        CalcScreenTransmittance(SurfaceNum, Phi, Theta, ScreenNumber)

SpecScreen == InitScreen /\ [][NextScreen]_vars

---------------------------------------------------------------------------

(* Vocabulary of the properties, stated on the input fields of a           *)
(* construction (TotLayers, LayerPoint, WindowTypeBSDF, WindowTypeEQL),    *)
(* which no operation changes.                                             *)

WindowEligibleGroups ==
    { WindowGlass, WindowGas, WindowGasMixture, Shade, WindowBlind, Screen,
      WindowSimpleGlazing, ComplexWindowShade, ComplexWindowGap,
      GlassEquivalentLayer, ShadeEquivalentLayer, DrapeEquivalentLayer,
      BlindEquivalentLayer, ScreenEquivalentLayer, GapEquivalentLayer }

\* The layers of c that reference a material.
ReferencedLayers(c) == { k \in 1..c.TotLayers : c.LayerPoint[k] # 0 }

AllReferenced(c) == ReferencedLayers(c) = 1..c.TotLayers

LayerGroup(c, k) == Material[c.LayerPoint[k]].Group

LayersOfGroups(c, groups) == { k \in ReferencedLayers(c) : LayerGroup(c, k) \in groups }

HasWindowLayer(c) == LayersOfGroups(c, WindowEligibleGroups) # {}

HasForeignLayer(c) == LayersOfGroups(c, MaterialGroups \ WindowEligibleGroups) # {}

\* Neither BSDF nor equivalent-layer.
OrdinaryModel(c) == ~ c.WindowTypeBSDF /\ ~ c.WindowTypeEQL

\* The one call made so far was the call for construction n, entered with the flag clear.
OnlyCallFromClear(n) == Validated = { n } /\ ~ ErrorsFound0

\* The layer groups of c, outermost first (all layers referenced).
GroupSequence(c) == [ k \in 1..c.TotLayers |-> LayerGroup(c, k) ]

GasGroups == { WindowGas, WindowGasMixture }
ShadeOrBlind == { Shade, WindowBlind }

IsDoubleBG(c) ==
    /\ c.TotLayers = 5
    /\ AllReferenced(c)
    /\ GroupSequence(c) \in
         { << WindowGlass, l, s, r, WindowGlass >> :
             l \in GasGroups, s \in ShadeOrBlind, r \in GasGroups }

IsTripleBG(c) ==
    /\ c.TotLayers = 7
    /\ AllReferenced(c)
    /\ GroupSequence(c) \in
         { << WindowGlass, a, WindowGlass, l, s, r, WindowGlass >> :
             a \in GasGroups, l \in GasGroups, s \in ShadeOrBlind, r \in GasGroups }

---------------------------------------------------------------------------
(* C1-C10: the rules of CheckAndSetConstructionProperties.                 *)

\* C1: after the routine has run on a construction with TotLayers >= 1 and a
\* valid innermost reference, TypeIsWindow is true exactly when a referenced
\* layer has a window-eligible group.
C1_TypeIsWindow ==
    \A n \in Validated :
        LET c == Construct[n]
        IN  (c.TotLayers >= 1 /\ c.LayerPoint[c.TotLayers] > 0)
                => (c.TypeIsWindow <=> HasWindowLayer(c))

\* A validated one-layer construction of an equivalent-layer group, classified a window.
C1_Witness ==
    \E n \in Validated :
        /\ Construct[n].TotLayers = 1
        /\ Construct[n].LayerPoint[1] # 0
        /\ LayerGroup(Construct[n], 1) = ScreenEquivalentLayer
        /\ Construct[n].TypeIsWindow

\* C2 as claimed: every construction classified a window (BSDF and
\* equivalent-layer included) with a layer outside the window-eligible groups
\* has ErrorsFound true on return.
C2_AsClaimed ==
    \A n \in Validated :
        (Construct[n].TypeIsWindow /\ HasForeignLayer(Construct[n])) => ErrorsFound

\* C2 amended: the same for the constructions whose outermost layer reference is non-zero.
C2_WrongMaterialsMix ==
    \A n \in Validated :
        ( /\ Construct[n].TypeIsWindow
          /\ Construct[n].LayerPoint[1] # 0
          /\ HasForeignLayer(Construct[n]) ) => ErrorsFound

\* A BSDF window of glass and an opaque material, entered with the flag clear, flagged.
C2_Witness ==
    \E n \in Validated :
        /\ OnlyCallFromClear(n)
        /\ Construct[n].WindowTypeBSDF
        /\ Construct[n].TotLayers = 2
        /\ AllReferenced(Construct[n])
        /\ GroupSequence(Construct[n]) = << WindowGlass, RegularMaterial >>
        /\ ErrorsFound

\* C3: a one-layer window construction of gas, gas mixture, shade, blind,
\* screen, complex shade or complex gap has ErrorsFound set; one of glass or
\* simple glazing, entered with the flag clear, leaves the flag clear.
C3_SingleLayerWindow ==
    \A n \in Validated :
        LET c == Construct[n]
        IN  (c.TotLayers = 1 /\ c.LayerPoint[1] # 0) =>
              /\ LayerGroup(c, 1) \in { WindowGas, WindowGasMixture, Shade, WindowBlind,
                                        Screen, ComplexWindowShade, ComplexWindowGap }
                    => ErrorsFound
              /\ ( /\ LayerGroup(c, 1) \in { WindowGlass, WindowSimpleGlazing }
                   /\ OnlyCallFromClear(n) ) => ~ ErrorsFound

\* A one-layer complex-gap construction, entered with the flag clear, flagged.
C3_Witness ==
    \E n \in Validated :
        /\ OnlyCallFromClear(n)
        /\ Construct[n].TotLayers = 1
        /\ Construct[n].LayerPoint[1] # 0
        /\ LayerGroup(Construct[n], 1) = ComplexWindowGap
        /\ ErrorsFound

\* C4 (on constructions whose layers are all referenced): an EcoRoof layer at
\* a position 2..TotLayers sets the flag, whatever the outermost layer is.
C4_InteriorEcoRoof ==
    \A n \in Validated :
        LET c == Construct[n]
        IN  ( /\ AllReferenced(c)
              /\ \E k \in 2..c.TotLayers : LayerGroup(c, k) = EcoRoof ) => ErrorsFound


\* The layers of c that are a shade, a blind or a screen.
ShadingLayers(c) == LayersOfGroups(c, { Shade, WindowBlind, Screen })

\* C5 as claimed: an ordinary window of window-eligible layers only, whose one
\* shade, blind or screen is neither the first nor the last layer, leaves the
\* flag unset only if its groups are exactly the double- or the triple-glazing
\* between-glass pattern.
C5_BetweenGlassPattern ==
    \A n \in Validated :
        LET c == Construct[n]
        IN  ( /\ OrdinaryModel(c)
              /\ AllReferenced(c)
              /\ ~ HasForeignLayer(c)
              /\ \E k \in 2..(c.TotLayers - 1) : ShadingLayers(c) = { k }
              /\ ~ ErrorsFound ) => (IsDoubleBG(c) \/ IsTripleBG(c))

\* The layer number of the shade or blind of a between-glass pattern.
BGShadeLayer(c) == IF c.TotLayers = 5 THEN 3 ELSE 5

\* The two gaps flanking the shade or blind agree in all 5 species and
\* fractions and their thicknesses differ by at most 0.0005 m.
FlankingGapsAgree(c) ==
    LET L == Material[c.LayerPoint[BGShadeLayer(c) - 1]]
        R == Material[c.LayerPoint[BGShadeLayer(c) + 1]]
    IN  /\ \A i \in 1..5 : L.GasType[i] = R.GasType[i] /\ L.GasFract[i] = R.GasFract[i]
        /\ L.Thickness - R.Thickness <= 5
        /\ R.Thickness - L.Thickness <= 5

\* Nothing but the gaps can be at fault in a between-glass pattern: no layer is
\* diffusing and the slats of a blind fit into the two gaps.
NoOtherFault(c) ==
    LET sh == Material[c.LayerPoint[BGShadeLayer(c)]]
        L == Material[c.LayerPoint[BGShadeLayer(c) - 1]]
        R == Material[c.LayerPoint[BGShadeLayer(c) + 1]]
    IN  /\ \A k \in 1..c.TotLayers : ~ Material[c.LayerPoint[k]].SolarDiffusing
        /\ (sh.Group = WindowBlind /\ sh.BlindDataPtr > 0)
              => L.Thickness + R.Thickness >= Blind[sh.BlindDataPtr].SlatWidth

\* The two halves of C6 for construction n.
GapRule(n) ==
    LET c == Construct[n]
    IN  /\ ~ FlankingGapsAgree(c) => ErrorsFound
        /\ (FlankingGapsAgree(c) /\ NoOtherFault(c) /\ OnlyCallFromClear(n)) => ~ ErrorsFound

\* C6 as claimed: every construction with the double- or triple-glazing
\* between-glass pattern is flagged when its flanking gaps differ, and is not
\* flagged on account of the gaps when they agree.
C6_AsClaimed ==
    \A n \in Validated :
        (IsDoubleBG(Construct[n]) \/ IsTripleBG(Construct[n])) => GapRule(n)

\* C6 amended: the same for the constructions that are neither BSDF nor equivalent-layer.
C6_FlankingGaps ==
    \A n \in Validated :
        ( /\ OrdinaryModel(Construct[n])
          /\ IsDoubleBG(Construct[n]) \/ IsTripleBG(Construct[n]) ) => GapRule(n)

\* An ordinary glass/gas/shade/gas/glass construction whose gaps hold the same
\* gas and differ by 0.0006 m in thickness, entered with the flag clear, flagged.
C6_Witness ==
    \E n \in Validated :
        /\ OnlyCallFromClear(n)
        /\ OrdinaryModel(Construct[n])
        /\ IsDoubleBG(Construct[n])
        /\ NoOtherFault(Construct[n])
        /\ Material[Construct[n].LayerPoint[2]].GasType = Material[Construct[n].LayerPoint[4]].GasType
        /\ Material[Construct[n].LayerPoint[2]].GasFract = Material[Construct[n].LayerPoint[4]].GasFract
        /\ Material[Construct[n].LayerPoint[4]].Thickness
             = Material[Construct[n].LayerPoint[2]].Thickness + 6
        /\ ErrorsFound

\* C7 (on constructions whose layers are all referenced): an ordinary
\* multi-layer window whose outermost layer is simple glazing and that has
\* another layer of glass, gas or gas mixture has ErrorsFound true on return.
C7_SimpleGlazingExclusive ==
    \A n \in Validated :
        LET c == Construct[n]
        IN  ( /\ OrdinaryModel(c)
              /\ AllReferenced(c)
              /\ c.TotLayers > 1
              /\ LayerGroup(c, 1) = WindowSimpleGlazing
              /\ \E k \in 2..c.TotLayers :
                    LayerGroup(c, k) \in { WindowGlass, WindowGas, WindowGasMixture } )
                => ErrorsFound

\* C8: an ordinary window whose layers are all referenced and in which two
\* consecutive layers have the same group has ErrorsFound true on return.
C8_Adjacency ==
    \A n \in Validated :
        LET c == Construct[n]
        IN  ( /\ OrdinaryModel(c)
              /\ AllReferenced(c)
              /\ HasWindowLayer(c)
              /\ \E k \in 1..(c.TotLayers - 1) : LayerGroup(c, k) = LayerGroup(c, k + 1) )
                => ErrorsFound

\* An ordinary window of two glass layers and nothing else, entered with the flag clear, flagged.
C8_Witness ==
    \E n \in Validated :
        /\ OnlyCallFromClear(n)
        /\ OrdinaryModel(Construct[n])
        /\ Construct[n].TotLayers = 2
        /\ Construct[n].LayerPoint[1] = 4
        /\ Construct[n].LayerPoint[2] = 4
        /\ ErrorsFound

\* The layers counted as glass layers: glass and simple glazing.
GlassLayers(c) == LayersOfGroups(c, { WindowGlass, WindowSimpleGlazing })

DiffusingLayers(c) == { k \in ReferencedLayers(c) : Material[c.LayerPoint[k]].SolarDiffusing }

\* The two cases of the diffusing-glass rule.
DiffusingFault(c) ==
    \/ DiffusingLayers(c) # {} /\ ShadingLayers(c) # {}
    \/ /\ Cardinality(GlassLayers(c)) > 1
       /\ \E k \in LayersOfGroups(c, { WindowGlass }) \cap DiffusingLayers(c) :
             \E j \in GlassLayers(c) : j > k

\* C9 as claimed: every window construction that is neither BSDF nor
\* equivalent-layer and has a diffusing-glass fault has ErrorsFound true on return.
C9_AsClaimed ==
    \A n \in Validated :
        ( /\ Construct[n].TypeIsWindow
          /\ OrdinaryModel(Construct[n])
          /\ DiffusingFault(Construct[n]) ) => ErrorsFound

\* C9 amended: the same for the constructions whose outermost layer reference is non-zero.
C9_DiffusingGlass ==
    \A n \in Validated :
        ( /\ Construct[n].TypeIsWindow
          /\ OrdinaryModel(Construct[n])
          /\ Construct[n].LayerPoint[1] # 0
          /\ DiffusingFault(Construct[n]) ) => ErrorsFound

\* An ordinary diffusing glass, gas, glass window, entered with the flag clear, flagged.
C9_Witness ==
    \E n \in Validated :
        /\ OnlyCallFromClear(n)
        /\ OrdinaryModel(Construct[n])
        /\ Construct[n].TotLayers = 3
        /\ Construct[n].LayerPoint[1] = 20
        /\ Construct[n].LayerPoint[2] = 5
        /\ Construct[n].LayerPoint[3] = 4
        /\ ErrorsFound

\* Construction n as it was input.
AsInput(n) ==
    InputConstruction([ k \in 1..Construct[n].TotLayers |-> Construct[n].LayerPoint[k] ],
                      Construct[n].WindowTypeBSDF, Construct[n].WindowTypeEQL)

\* Construction n violates a rule: validated alone with the flag clear, it sets the flag.
ViolatesAlone(n) == CheckedConstruction(AsInput(n), FALSE, InputBlinds, JunkMaterial, 0).err

\* Every construction has been validated, and none read Material(0).
BatchDone ==
    /\ Validated = 1..TotConstructs
    /\ \A n \in 1..TotConstructs :
          \A k \in 2..(Construct[n].TotLayers - 1) : Construct[n].LayerPoint[k] # 0

\* C10: no call changes ErrorsFound from true to false, and after the calls
\* for all constructions, made in any order, the flag is true exactly when it
\* was true initially or some construction violates a rule.
C10_Accumulates ==
    /\ [][ErrorsFound => ErrorsFound']_vars
    /\ [](BatchDone =>
            (ErrorsFound <=> (ErrorsFound0 \/ \E n \in 1..TotConstructs : ViolatesAlone(n))))

\* A batch of three, entered with the flag clear, all validated: only the
\* first construction violates a rule and the flag is set.
C10_Witness ==
    /\ TotConstructs = 3
    /\ Validated = { 1, 2, 3 }
    /\ ~ ErrorsFound0
    /\ ViolatesAlone(1) /\ ~ ViolatesAlone(2) /\ ~ ViolatesAlone(3)
    /\ ErrorsFound

---------------------------------------------------------------------------
(* C11-C14: what CheckAndSetConstructionProperties leaves in the entry.    *)

\* The construction is rejected at entry: it has no layers or its innermost
\* layer reference is not a positive material index.
RejectedAtEntry(c) == c.TotLayers = 0 \/ c.LayerPoint[c.TotLayers] <= 0

\* The call for n left every field of n as input, and, being the only call
\* so far, every other construction and the flag as well.
WasNoOp(n) ==
    /\ Construct[n] = AsInput(n)
    /\ Validated = { n } =>
          /\ \A m \in 1..TotConstructs : Construct[m] = AsInput(m)
          /\ ErrorsFound = ErrorsFound0

\* C11: the call for a construction with zero layers or an invalid innermost
\* reference changes no field of any construction and not the flag, and for
\* TotLayers = 0 it has read no slot of LayerPoint.
C11_RejectionIsNoOp ==
    \A n \in Validated :
        RejectedAtEntry(Construct[n]) =>
            /\ WasNoOp(n)
            /\ Construct[n].TotLayers = 0 => \A r \in LayerPointReads : r[1] # n

\* BSDF or equivalent-layer.
SpecialModel(c) == c.WindowTypeBSDF \/ c.WindowTypeEQL

\* At least one layer, every layer referenced and of a window-eligible group.
MadeOfWindowLayers(c) == c.TotLayers >= 1 /\ AllReferenced(c) /\ ~ HasForeignLayer(c)

\* The thermal absorptances the early return of a special model leaves: the
\* back value of the innermost and the front value of the outermost layer.
SpecialAbsorptances(c) ==
    /\ c.InsideAbsorpThermal = Material[c.LayerPoint[c.TotLayers]].AbsorpThermalBack
    /\ c.OutsideAbsorpThermal = Material[c.LayerPoint[1]].AbsorpThermalFront

\* The return was early: no layering rule has set the flag of a construction
\* of more than one layer entered with the flag clear.
ReturnedEarly(n) ==
    (OnlyCallFromClear(n) /\ Construct[n].TotLayers > 1) => ~ ErrorsFound

\* C12 as claimed: for both special models, the glass-layer count is the
\* number of glass and simple-glazing layers, the thermal absorptances are the
\* innermost back and the outermost front value, and the return is early.
C12_AsClaimed ==
    \A n \in Validated :
        LET c == Construct[n]
        IN  (SpecialModel(c) /\ MadeOfWindowLayers(c)) =>
                /\ c.TotGlassLayers = Cardinality(GlassLayers(c))
                /\ SpecialAbsorptances(c)
                /\ ReturnedEarly(n)

\* C12 amended: the same, except that the equivalent-layer model leaves the
\* glass-layer count at 0.
C12_SpecialModels ==
    \A n \in Validated :
        LET c == Construct[n]
        IN  (SpecialModel(c) /\ MadeOfWindowLayers(c)) =>
                /\ c.WindowTypeBSDF => c.TotGlassLayers = Cardinality(GlassLayers(c))
                /\ ~ c.WindowTypeBSDF => c.TotGlassLayers = 0
                /\ SpecialAbsorptances(c)
                /\ ReturnedEarly(n)

\* A BSDF window glass, gas, glass, entered with the flag clear: two glass
\* layers counted, the absorptances of glass set, the flag clear.
C12_Witness ==
    \E n \in Validated :
        /\ OnlyCallFromClear(n)
        /\ Construct[n].WindowTypeBSDF
        /\ Construct[n].TotLayers = 3
        /\ AllReferenced(Construct[n])
        /\ GroupSequence(Construct[n]) = << WindowGlass, WindowGas, WindowGlass >>
        /\ Construct[n].TotGlassLayers = 2
        /\ Construct[n].InsideAbsorpThermal = 74
        /\ Construct[n].OutsideAbsorpThermal = 44
        /\ ~ ErrorsFound

\* Valid outermost and innermost layer references.
ValidEnds(c) == c.TotLayers >= 1 /\ c.LayerPoint[1] > 0 /\ c.LayerPoint[c.TotLayers] > 0

InsideGlassLayer(c) ==
    IF LayerGroup(c, c.TotLayers) \in ShadeOrBlind THEN c.TotLayers - 1 ELSE c.TotLayers

---------------------------------------------------------------------------
(* C15-C18: AssignReverseConstructionNumber.                               *)

\* The size of the registry after call k.
TotConstructsAfter(k) ==
    IF k < Len(ReverseCalls) THEN ReverseCalls[k + 1].TotConstructs ELSE TotConstructs

\* Call k appended an entry.
Appended(k) == TotConstructsAfter(k) > ReverseCalls[k].TotConstructs

\* The entries the calls have created.
CreatedEntries == { ReverseCalls[k].NewConstrNum : k \in { j \in 1..Len(ReverseCalls) : Appended(j) } }

\* Entries i and j have the same references in all MaxLayersInConstruct slots.
SameSlots(i, j) ==
    \A nLayer \in 1..MaxLayersInConstruct :
        Construct[i].LayerPoint[nLayer] = Construct[j].LayerPoint[nLayer]

\* C15: two consecutive calls for the same construction c > 0 return the same
\* number and the second leaves TotConstructs alone; no two entries created
\* by the calls have the same references in all slots.
C15_Deduplication ==
    /\ \A k \in 1..(Len(ReverseCalls) - 1) :
          ( /\ ReverseCalls[k].ConstrNum > 0
            /\ ReverseCalls[k + 1].ConstrNum = ReverseCalls[k].ConstrNum ) =>
              /\ ReverseCalls[k + 1].NewConstrNum = ReverseCalls[k].NewConstrNum
              /\ ~ Appended(k + 1)
    /\ \A i \in CreatedEntries : \A j \in CreatedEntries : SameSlots(i, j) => i = j

\* Two calls for the first construction: the first appended entry 2 or 3,
\* the second returned it again.
C15_Witness ==
    /\ Len(ReverseCalls) = 2
    /\ ReverseCalls[1].ConstrNum = 1
    /\ ReverseCalls[2].ConstrNum = 1
    /\ Appended(1)
    /\ ReverseCalls[1].NewConstrNum = ReverseCalls[1].TotConstructs + 1
    /\ ReverseCalls[2].NewConstrNum = ReverseCalls[1].NewConstrNum
    /\ TotConstructs = ReverseCalls[1].TotConstructs + 1

\* The round trip of calls k and k + 1: the entry returned by the second has
\* the layers of the construction the first was called for, is not behind it
\* in the registry, and the second call appended nothing.
RoundTrip(k) ==
    LET c  == ReverseCalls[k].ConstrNum
        r2 == ReverseCalls[k + 1].NewConstrNum
    IN  /\ r2 \in 1..c
        /\ Construct[r2].TotLayers = Construct[c].TotLayers
        /\ SameSlots(r2, c)
        /\ ~ Appended(k + 1)

\* Call k + 1 was made for the construction call k returned.
IsRoundTrip(k) ==
    /\ ReverseCalls[k].ConstrNum > 0
    /\ ReverseCalls[k + 1].ConstrNum = ReverseCalls[k].NewConstrNum

\* C16 as claimed: every round trip, in every registry, returns to the layers
\* of the original construction.
C16_AsClaimed ==
    \A k \in 1..(Len(ReverseCalls) - 1) : IsRoundTrip(k) => RoundTrip(k)

\* C16 amended: the same in a registry in which every layer of every
\* construction references a material.
C16_RoundTrip ==
    (\A i \in 1..TotConstructs : AllReferenced(Construct[i])) =>
        \A k \in 1..(Len(ReverseCalls) - 1) : IsRoundTrip(k) => RoundTrip(k)

\* A window glass, gas, diffusing glass reversed into a new entry and that
\* entry reversed back: the second call returns the window itself.
C16_Witness ==
    /\ \A i \in 1..TotConstructs : AllReferenced(Construct[i])
    /\ Len(ReverseCalls) = 2
    /\ ReverseCalls[1].ConstrNum = 1
    /\ Construct[1].TotLayers = 3
    /\ Appended(1)
    /\ ReverseCalls[2].ConstrNum = ReverseCalls[1].NewConstrNum
    /\ ReverseCalls[2].NewConstrNum = 1
    /\ Construct[ReverseCalls[1].NewConstrNum].LayerPoint[1] = Construct[1].LayerPoint[3]
    /\ Construct[ReverseCalls[1].NewConstrNum].LayerPoint[1] # Construct[1].LayerPoint[1]

\* The step is a call with argument ConstrNum.
IsReverseCallOf(ConstrNum) ==
    /\ Len(ReverseCalls') = Len(ReverseCalls) + 1
    /\ ReverseCalls'[Len(ReverseCalls')].ConstrNum = ConstrNum

\* C17: every call grows TotConstructs by 0 or 1 and leaves the name,
\* TotLayers, the layers, NominalRforNominalUCalculation and NominalU of every
\* existing entry as they were; an existing entry changes at most by IsUsed of
\* the argument becoming true; a call with argument 0 returns 0 and changes nothing.
C17_AppendOnly ==
    [][ /\ TotConstructs' \in { TotConstructs, TotConstructs + 1 }
        /\ Len(Construct') = TotConstructs'
        /\ Len(NominalRforNominalUCalculation') = TotConstructs'
        /\ Len(NominalU') = TotConstructs'
        /\ \A i \in 1..TotConstructs :
              /\ Construct'[i].Name = Construct[i].Name
              /\ Construct'[i].TotLayers = Construct[i].TotLayers
              /\ Construct'[i].LayerPoint = Construct[i].LayerPoint
              /\ NominalRforNominalUCalculation'[i] = NominalRforNominalUCalculation[i]
              /\ NominalU'[i] = NominalU[i]
              /\ \/ Construct'[i] = Construct[i]
                 \/ /\ IsReverseCallOf(i)
                    /\ Construct'[i] = [ Construct[i] EXCEPT !.IsUsed = TRUE ]
        /\ IsReverseCallOf(0) =>
              /\ ReverseCalls'[Len(ReverseCalls')].NewConstrNum = 0
              /\ UNCHANGED << Construct, TotConstructs, NominalRforNominalUCalculation,
                              NominalU, ErrorsFound, Blind >>
      ]_vars

\* A call with argument 0 that returned 0 and a call that appended an entry
\* behind a registry of two, whose entries kept their names and resistances.
C17_Witness ==
    /\ \E k \in 1..Len(ReverseCalls) :
          ReverseCalls[k].ConstrNum = 0 /\ ReverseCalls[k].NewConstrNum = 0
    /\ \E k \in 1..Len(ReverseCalls) : Appended(k) /\ ReverseCalls[k].TotConstructs = 2
    /\ TotConstructs = 3
    /\ Construct[1].Name = "C1" /\ Construct[2].Name = "C2"
    /\ NominalRforNominalUCalculation[1] = InputNominalR(Construct[1])
    /\ NominalRforNominalUCalculation[2] = InputNominalR(Construct[2])
    /\ Construct[3].IsUsed

RECURSIVE SumNominalR(_, _)
\* The sum of NominalR over the slots in S of layer sequence lp that hold a reference.
SumNominalR(lp, S) ==
    IF S = {} THEN 0
    ELSE LET k == CHOOSE x \in S : TRUE
         IN  (IF lp[k] # 0 THEN NominalR[lp[k]] ELSE 0) + SumNominalR(lp, S \ { k })

\* What C18 says of the entry n that call k appended for construction c.
IsReverseOf(n, c, k) ==
    /\ n = ReverseCalls[k].TotConstructs + 1
    /\ \A j \in 1..MaxLayersInConstruct :
          Construct[n].LayerPoint[j] =
              IF j <= Construct[c].TotLayers
              THEN Construct[c].LayerPoint[Construct[c].TotLayers + 1 - j] ELSE 0
    /\ Construct[n].TotLayers = Construct[c].TotLayers
    /\ Construct[n].Name = "iz-" \o Construct[c].Name
    /\ NominalRforNominalUCalculation[n] =
          SumNominalR(Construct[n].LayerPoint, 1..MaxLayersInConstruct)
    /\ NominalU[n] = IF NominalRforNominalUCalculation[n] # 0
                     THEN [ num |-> 1, den |-> NominalRforNominalUCalculation[n] ]
                     ELSE [ num |-> 0, den |-> 1 ]
    /\ n \in Validated
    /\ << n, Construct[n].TotLayers >> \in LayerPointReads
    /\ ValidEnds(Construct[n]) =>
          /\ Construct[n].TypeIsWindow <=> HasWindowLayer(Construct[n])
          /\ Construct[n].OutsideRoughness = Material[Construct[n].LayerPoint[1]].Roughness

\* C18: the entry a call appends is numbered old TotConstructs + 1, holds the
\* layers of c in reverse order followed by zeros, the TotLayers of c, the
\* name "iz-" and the name of c, the sum of NominalR of its referenced layers
\* and nothing else as NominalRforNominalUCalculation, its reciprocal (0 for
\* a sum of 0) as NominalU, and has been validated.
C18_NewEntry ==
    \A k \in 1..Len(ReverseCalls) :
        Appended(k) => IsReverseOf(ReverseCalls[k].NewConstrNum, ReverseCalls[k].ConstrNum, k)

\* The window glass, gas, diffusing glass as second of two constructions,
\* reversed into entry 3: diffusing glass, gas, glass, named iz-C2, with the
\* resistance of its three layers, and flagged by the validator.
C18_Witness ==
    /\ ~ ErrorsFound0
    /\ Len(ReverseCalls) = 1
    /\ ReverseCalls[1].ConstrNum = 2
    /\ ReverseCalls[1].NewConstrNum = 3
    /\ TotConstructs = 3
    /\ Construct[3].TotLayers = 3
    /\ Construct[3].LayerPoint[1] = 20
    /\ Construct[3].LayerPoint[2] = 5
    /\ Construct[3].LayerPoint[3] = 4
    /\ Construct[3].Name = "iz-C2"
    /\ NominalRforNominalUCalculation[3] = NominalR[20] + NominalR[5] + NominalR[4]
    /\ NominalRforNominalUCalculation[1] # 0
    /\ ErrorsFound

---------------------------------------------------------------------------
(* C19-C20: AddVariableSlatBlind.                                          *)

\* The size of the blind registry after call k.
TotBlindsAfter(k) ==
    IF k < Len(BlindCalls) THEN BlindCalls[k + 1].TotBlinds ELSE TotBlinds

\* Call k created a clone.
CreatedClone(k) == TotBlindsAfter(k) > BlindCalls[k].TotBlinds

\* Call k is the first call for its blind.
FirstBlindCall(k) ==
    \A j \in 1..(k - 1) : BlindCalls[j].inBlindNumber # BlindCalls[k].inBlindNumber

\* The calls made for a fixed-slat blind.
FixedBlindCalls ==
    { k \in 1..Len(BlindCalls) :
        Blind[BlindCalls[k].inBlindNumber].SlatAngleType = FixedSlats }

\* What C19 says of call k, made for the fixed-slat blind b.
ReturnsTheClone(k) ==
    LET b   == BlindCalls[k].inBlindNumber
        out == BlindCalls[k].outBlindNumber
    IN  /\ TotBlindsAfter(k) = BlindCalls[k].TotBlinds + (IF FirstBlindCall(k) THEN 1 ELSE 0)
        /\ \A j \in 1..(k - 1) :
              BlindCalls[j].inBlindNumber = b => BlindCalls[j].outBlindNumber = out
        /\ out \in 1..TotBlinds
        /\ out # b
        /\ Blind[out].Name = "~" \o Blind[b].Name
        /\ Blind[out].SlatAngleType = VariableSlats

\* C19: all calls for one fixed-slat blind return the same number, TotBlinds
\* grows by exactly 1 on the first of them and by 0 on the later ones, the
\* blind returned is named "~" and the name of b and has variable slats, and
\* no call changes a blind that existed before it.
C19_CloneOnce ==
    /\ [][ \A i \in 1..TotBlinds : Blind'[i] = Blind[i] ]_vars
    /\ [](\A k \in FixedBlindCalls : ReturnsTheClone(k))

\* Two calls for blind 1 of a registry of two: the first added blind 3, the
\* second returned 3 again and added nothing.
C19_Witness ==
    /\ Len(BlindCalls) = 2
    /\ BlindCalls[1].inBlindNumber = 1
    /\ BlindCalls[2].inBlindNumber = 1
    /\ BlindCalls[1].TotBlinds = 2
    /\ BlindCalls[1].outBlindNumber = 3
    /\ BlindCalls[2].outBlindNumber = 3
    /\ TotBlinds = 3
    /\ Blind[3].Name = "~B1"
    /\ Blind[3].SlatAngleType = VariableSlats
    /\ Blind[1].SlatAngleType = FixedSlats

\* The declared angles of blind b are an invalid configuration: the maximum
\* below the minimum, or the slat angle outside [min, max] with min < max.
InvalidAngles(b) ==
    \/ b.MaxSlatAngle < b.MinSlatAngle
    \/ /\ b.MinSlatAngle < b.MaxSlatAngle
       /\ (b.SlatAngle < b.MinSlatAngle \/ b.SlatAngle > b.MaxSlatAngle)

\* The calls made for a fixed-slat blind with an invalid angle configuration.
InvalidBlindCalls ==
    { k \in FixedBlindCalls : InvalidAngles(Blind[BlindCalls[k].inBlindNumber]) }

\* C20 as claimed: every call for a source blind with an invalid angle
\* configuration returns errFlag = true, the call that creates the clone and
\* every later call.
C20_AsClaimed == \A k \in InvalidBlindCalls : BlindCalls[k].errFlag

\* C20 amended: such a call returns errFlag = true when it creates the clone
\* and errFlag = false when it finds the clone.
C20_ErrFlag == \A k \in InvalidBlindCalls : BlindCalls[k].errFlag <=> CreatedClone(k)

\* Two calls for a blind declared with minimum 45 and maximum 20: the first
\* created the clone and set errFlag, the second found the clone and did not.
C20_Witness ==
    /\ Len(BlindCalls) = 2
    /\ BlindCalls[1].inBlindNumber = 1
    /\ BlindCalls[2].inBlindNumber = 1
    /\ Blind[1].MinSlatAngle = 45
    /\ Blind[1].MaxSlatAngle = 20
    /\ CreatedClone(1)
    /\ BlindCalls[1].errFlag
    /\ ~ CreatedClone(2)
    /\ ~ BlindCalls[2].errFlag

---------------------------------------------------------------------------
(* C21-C22: the slat angles of the clone.                                  *)

\* The calls that created a clone.
CloneCalls == { k \in 1..Len(BlindCalls) : CreatedClone(k) }

\* The blind call k was made for, and the blind it returned.
SourceBlind(k) == Blind[BlindCalls[k].inBlindNumber]
ReturnedBlind(k) == Blind[BlindCalls[k].outBlindNumber]

\* The smallest slat angle the geometry of blind b allows: 0 when the slats
\* are no wider than their separation.
GeometryMinimum(b) ==
    IF b.SlatWidth <= b.SlatSeparation
    THEN 0
    ELSE AsinDegrees(b.SlatThickness, b.SlatThickness + b.SlatSeparation)

\* A declared bound of b is outside the range the geometry allows.
NeedsClamp(b) ==
    \/ b.MinSlatAngle < GeometryMinimum(b)
    \/ b.MaxSlatAngle > 180 - GeometryMinimum(b)

\* C21: whenever a clone is created, its MinSlatAngle is at least the
\* geometry-derived minimum and its MaxSlatAngle at most 180 minus that
\* minimum, a declared bound already inside the feasible range is left
\* unchanged, and a clamp without an invalid angle configuration does not set
\* errFlag.
C21_GeometryClamp ==
    \A k \in CloneCalls :
        LET b == SourceBlind(k)
            c == ReturnedBlind(k)
        IN  /\ c.MinSlatAngle >= GeometryMinimum(b)
            /\ c.MaxSlatAngle <= 180 - GeometryMinimum(b)
            /\ b.MinSlatAngle >= GeometryMinimum(b) => c.MinSlatAngle = b.MinSlatAngle
            /\ b.MaxSlatAngle <= 180 - GeometryMinimum(b) => c.MaxSlatAngle = b.MaxSlatAngle
            /\ (NeedsClamp(b) /\ ~ InvalidAngles(b)) => ~ BlindCalls[k].errFlag

\* A blind with a geometry minimum of 30 declared with the range 0..180 and
\* the slat angle 45: the clone has the range 30..150 and errFlag is false.
C21_Witness ==
    \E k \in CloneCalls :
        /\ GeometryMinimum(SourceBlind(k)) = 30
        /\ SourceBlind(k).MinSlatAngle = 0
        /\ SourceBlind(k).MaxSlatAngle = 180
        /\ ReturnedBlind(k).MinSlatAngle = 30
        /\ ReturnedBlind(k).MaxSlatAngle = 150
        /\ ~ BlindCalls[k].errFlag

\* C22: whenever a call creates a clone and returns with errFlag = false, the
\* clone stored in the registry has MinSlatAngle <= MaxSlatAngle.
C22_MinBelowMax ==
    \A k \in CloneCalls :
        ~ BlindCalls[k].errFlag
            => ReturnedBlind(k).MinSlatAngle <= ReturnedBlind(k).MaxSlatAngle

---------------------------------------------------------------------------
(* C30: the material lookups of CheckAndSetConstructionProperties.         *)

\* C30: for every construction with 1 <= TotLayers <= 11 whose outermost and
\* innermost references are valid, every Material( ... ) lookup of the
\* routine uses an index >= 1, whatever the intermediate slots hold.
C30_NoZeroLookup ==
    \A n \in Validated :
        LET c == Construct[n]
        IN  ( /\ c.TotLayers >= 1
              /\ c.TotLayers <= MaxLayersInConstruct
              /\ c.LayerPoint[1] > 0
              /\ c.LayerPoint[c.TotLayers] > 0 )
                => \A k \in UntestedLookups(c) : c.LayerPoint[k] >= 1

---------------------------------------------------------------------------
(* C28: the eco-roof flag of input and of reverse constructions.           *)

\* C28: in every state reached from a registry of validated constructions by
\* calls of AssignReverseConstructionNumber, every validated construction
\* with valid layer references that is neither BSDF nor equivalent-layer has
\* TypeIsEcoRoof = true exactly when the material of its outermost layer has
\* group EcoRoof; so has a reverse construction made from an eco-roof one.
C28_EcoRoofFlag ==
    \A n \in Validated :
        LET c == Construct[n]
        IN  (c.TotLayers >= 1 /\ AllReferenced(c) /\ OrdinaryModel(c))
                => (c.TypeIsEcoRoof <=> LayerGroup(c, 1) = EcoRoof)

---------------------------------------------------------------------------
(* C23-C27, C29: CalcScreenTransmittance.                                  *)

\* A call has been made and it went on past the test of its arguments.
Completed == ScreenCall.Number > 0 /\ ~ ScreenCall.Fatal

\* The screen the last call addressed, and its diameter-to-spacing ratio.
AddressedScreen == SurfaceScreens[ScreenCall.ScNum]
CallGamma == AddressedScreen.ScreenDiameterToSpacingRatio

\* C23: a call with a ScreenNumber but without Theta or without Phi signals
\* the fatal error, and no field of any SurfaceScreens record is written by
\* that call; every other call does not signal it.
C23_FatalWithoutAngles ==
    /\ [](ScreenCall.Number > 0 =>
            (ScreenCall.Fatal <=>
                /\ present(ScreenCall.ScreenNumber)
                /\ ~ present(ScreenCall.Theta) \/ ~ present(ScreenCall.Phi)))
    /\ [][ScreenCall'.Fatal => SurfaceScreens' = SurfaceScreens]_vars

\* A call for surface 0 with a screen number and Theta but without Phi: fatal.
C23_Witness ==
    /\ ScreenCall.Number > 0
    /\ ScreenCall.SurfaceNum = 0
    /\ present(ScreenCall.ScreenNumber)
    /\ present(ScreenCall.Theta)
    /\ ~ present(ScreenCall.Phi)
    /\ ScreenCall.Fatal

\* The last call was completed with Theta = 0 and Phi = 0.
NormalIncidence ==
    /\ Completed
    /\ present(ScreenCall.Theta) /\ ScreenCall.Theta.value = 0
    /\ present(ScreenCall.Phi) /\ ScreenCall.Phi.value = 0

\* C24 as claimed: with Theta = 0 and Phi = 0 the direct transmittance is
\* exactly 1 - Gamma for every Gamma, and the grazing branch is not taken.
C24_AsClaimed ==
    NormalIncidence => (ScreenCall.Tdirect = One - CallGamma /\ ~ ScreenCall.Grazing)

\* C24 amended: with Theta = 0 and Phi = 0 the direct transmittance is the
\* product ( 1 - Gamma ) * ( 1 - Gamma ) of the two components, and the
\* grazing branch is not taken.
C24_NormalIncidence ==
    NormalIncidence =>
        /\ ScreenCall.Tdirect = Times(One - CallGamma, One - CallGamma)
        /\ ~ ScreenCall.Grazing

\* A call with Theta = 0 and Phi = 0 for a screen with Gamma = 0.5: the
\* direct transmittance is 0.25 and the scattered transmittance is not 0.
C24_Witness ==
    /\ NormalIncidence
    /\ CallGamma = 5000
    /\ ScreenCall.Tdirect = 2500
    /\ ScreenCall.Tscattered > 0

\* C25: after every completed call, with explicit or with derived angles,
\* SunAzimuthToScreenNormal and SunAltitudeToScreenNormal lie in 0..90 degrees.
C25_Normalised ==
    Completed =>
        /\ ScreenCall.SunAzimuthToScreenNormal \in 0..PiOvr2
        /\ ScreenCall.SunAltitudeToScreenNormal \in 0..PiOvr2

\* The front-side and the back-side fields of a screen record.
FrontFields(s) ==
    << s.BmBmTrans, s.BmBmTransVis, s.BmDifTrans, s.BmDifTransVis,
       s.ReflectSolBeamFront, s.ReflectVisBeamFront, s.AbsorpSolarBeamFront >>

BackFields(s) ==
    << s.BmBmTransBack, s.BmDifTransBack, s.ReflectSolBeamBack, s.ReflectVisBeamBack,
       s.AbsorpSolarBeamBack >>

AllZero(fields) == \A i \in 1..Len(fields) : fields[i] = 0

\* The beam-beam and the beam-diffuse transmittance C26 states for a mode.
ClaimedBeamBeam(mode) ==
    IF mode = ModelAsDirectBeam THEN ScreenCall.Tdirect + ScreenCall.Tscattered
    ELSE ScreenCall.Tdirect

ClaimedBeamDiffuse(mode) ==
    IF mode = ModelAsDiffuse THEN ScreenCall.Tscattered ELSE 0

C27_EnergyBalance ==
    ( /\ Completed
      /\ ScreenCall.Within90
      /\ ScreenCall.Tscattered
            <= Times(AddressedScreen.ReflectCylinder, One - ScreenCall.Tdirect) )
        => AddressedScreen.BmBmTrans + AddressedScreen.BmDifTrans
             + AddressedScreen.ReflectSolBeamFront + AddressedScreen.AbsorpSolarBeamFront
             <= One

\* C29: in every completed call each local read for NormalAltitude and
\* NormalAzimuth was assigned earlier in the call.
C29_LocalsAssigned == Completed => ScreenCall.UnassignedReads = {}

=============================================================================
